---------------------------- MODULE Spec2Model ----------------------------
(***************************************************************************)
(* A model of the S3 communications module of HDF5 (src/src/H5FDs3comms.c):*)
(* the sorted header list (hrb_node_t), and the request handle (s3r_t)     *)
(* with its open / getsize / read / close operations on top of a curl easy *)
(* handle and a server that honours HTTP byte ranges.                      *)
(*                                                                         *)
(* C strings are sequences of one-character strings; a null pointer is the *)
(* value NULL.  HDassert(X) is taken as evaluating X (the macro lives in   *)
(* H5private.h, outside the files modelled here).                          *)
(***************************************************************************)
EXTENDS Integers, Sequences, FiniteSets, TLC

VARIABLES
    L,          \* hrb_node_t *: the header list under test, head first
    hrb_call,   \* the last H5FD_s3comms_hrb_node_set call: list before, arguments, result
    handle,     \* s3r_t: the request handle held by the caller
    objsize,    \* size in bytes of the object the server holds
    curl,       \* the curl easy handle's options
    heap,       \* live allocations, by kind
    wire,       \* the HTTP request the last call put on the wire, if any
    sink,       \* what the last call delivered: bytes in dest, bytes astray
    s3r_call,   \* the last s3r operation: name, arguments, result, handle before
    crashed,    \* the process has run into undefined behaviour and stopped
    purl_slot,  \* parsed_url_t *: the caller's pointer that parse_url is given to fill
    url_call,   \* the last parse_url / free_purl call: the string, its parts, the result
    creq_call,  \* the last aws_canonical_request call: the request, the two strings written
    util_call   \* the last call of a string utility: which, its arguments, what it wrote

varsHdr == <<L, hrb_call>>
varsS3r == <<objsize, handle, curl, heap, wire, sink, s3r_call, crashed>>
varsUrl == <<purl_slot, url_call>>
varsAws == <<creq_call>>
varsUtil == <<util_call>>
vars    == <<L, hrb_call, objsize, handle, curl, heap, wire, sink, s3r_call, crashed,
             purl_slot, url_call, creq_call, util_call>>

(***************************************************************************)
(* Characters and C strings                                                *)
(***************************************************************************)

NULL == <<"NULL">>

SUCCEED == "SUCCEED"

FAIL == "FAIL"

\* the printable ASCII characters, 0x20 .. 0x7E, in code order (0x60, the grave
\* accent, is held by a name: no string of the model contains it)
AsciiChars ==
  << " ", "!", "\"", "#", "$", "%", "&", "'", "(", ")", "*", "+", ",", "-", ".", "/",
     "0", "1", "2", "3", "4", "5", "6", "7", "8", "9", ":", ";", "<", "=", ">", "?",
     "@", "A", "B", "C", "D", "E", "F", "G", "H", "I", "J", "K", "L", "M", "N", "O",
     "P", "Q", "R", "S", "T", "U", "V", "W", "X", "Y", "Z", "[", "\\", "]", "^", "_",
     "GRAVE", "a", "b", "c", "d", "e", "f", "g", "h", "i", "j", "k", "l", "m", "n", "o",
     "p", "q", "r", "s", "t", "u", "v", "w", "x", "y", "z", "{", "|", "}", "~" >>

OrdTable ==
    [c \in {AsciiChars[i] : i \in 1..Len(AsciiChars)} |->
        31 + (CHOOSE i \in 1..Len(AsciiChars) : AsciiChars[i] = c)]

\* the character's code, as strcmp and tolower see it
Ord(c) == IF c = "\r" THEN 13 ELSE IF c = "\n" THEN 10 ELSE OrdTable[c]

Chr(n) == AsciiChars[n - 31]

IsUpper(c) == Ord(c) >= 65 /\ Ord(c) <= 90

IsDigit(c) == Ord(c) >= 48 /\ Ord(c) <= 57

IsAlpha(c) == IsUpper(c) \/ (Ord(c) >= 97 /\ Ord(c) <= 122)

\* tolower(c): the lower-case letter for an upper-case one, c itself otherwise
tolower(c) == LET n == Ord(c) IN IF n >= 65 /\ n <= 90 THEN Chr(n + 32) ELSE c

LowerStr(s) == [i \in 1 .. Len(s) |-> tolower(s[i])]

\* strcmp: negative, zero or positive; the terminating NUL sorts first
RECURSIVE StrCmpFrom(_, _, _)
StrCmpFrom(a, b, i) ==
    IF i > Len(a) /\ i > Len(b) THEN 0
    ELSE IF i > Len(a) THEN -1
    ELSE IF i > Len(b) THEN 1
    ELSE LET x == Ord(a[i])
             y == Ord(b[i])
         IN  IF x < y THEN -1 ELSE IF x > y THEN 1 ELSE StrCmpFrom(a, b, i + 1)

strcmp(a, b) == StrCmpFrom(a, b, 1)

(***************************************************************************)
(* Numbers: haddr_t, size_t and unsigned long, and their decimal text      *)
(***************************************************************************)

\* width, in bits, of haddr_t, size_t and unsigned long in the model
AddrBits == 4

Modulus == 2 ^ AddrBits

ULONG_MAX == Modulus - 1

\* unsigned addition in the machine word: (len + offset)
AddrAdd(a, b) == (a + b) % Modulus

DigitChar(d) == Chr(48 + d)

\* printf("%llu", n)
RECURSIVE Dec(_)
Dec(n) == IF n < 10 THEN <<DigitChar(n)>> ELSE Dec(n \div 10) \o <<DigitChar(n % 10)>>

\* the leading decimal digits of s, as a number (no digits: 0), not yet clamped
RECURSIVE DigitsValue(_, _)
DigitsValue(s, acc) ==
    IF s = <<>> \/ ~IsDigit(Head(s)) THEN acc
    ELSE DigitsValue(Tail(s), acc * 10 + (Ord(Head(s)) - 48))

\* the value of c as a digit of strtoul: 0 .. 9, a .. f as 10 .. 15, A .. F
\* alike; 99 for anything else
StrtoulDigit(c) ==
    LET n == Ord(c)
    IN  IF n >= 48 /\ n <= 57 THEN n - 48
        ELSE IF n >= 97 /\ n <= 102 THEN n - 87
        ELSE IF n >= 65 /\ n <= 70 THEN n - 55
        ELSE 99

\* the digits of s from position i on, in the given base, until one that is
\* no digit of the base
RECURSIVE StrtoulFrom(_, _, _, _)
StrtoulFrom(s, i, base, acc) ==
    IF i > Len(s) \/ StrtoulDigit(s[i]) >= base THEN acc
    ELSE StrtoulFrom(s, i + 1, base, acc * base + StrtoulDigit(s[i]))

\* the number strtoul(s, NULL, 0) reads, before it is clamped: base 0 takes a
\* leading "0x" or "0X" for hexadecimal and any other leading "0" for octal
\* (s here never starts with white space or a sign)
StrtoulBase0(s) ==
    IF Len(s) >= 3 /\ s[1] = "0" /\ s[2] \in {"x", "X"} /\ StrtoulDigit(s[3]) < 16
    THEN StrtoulFrom(s, 3, 16, 0)
    ELSE IF Len(s) >= 1 /\ s[1] = "0"
    THEN StrtoulFrom(s, 2, 8, 0)
    ELSE StrtoulFrom(s, 1, 10, 0)

\* strtoul(s, NULL, 0): the value, clamped to ULONG_MAX with errno set to ERANGE
strtoul(s) ==
    IF StrtoulBase0(s) > ULONG_MAX
    THEN [value |-> ULONG_MAX, erange |-> TRUE]
    ELSE [value |-> StrtoulBase0(s), erange |-> FALSE]

\* strstr(hay, needle): the 1-based position of the first match, 0 when none
RECURSIVE StrStrFrom(_, _, _)
StrStrFrom(hay, needle, i) ==
    IF i + Len(needle) - 1 > Len(hay) THEN 0
    ELSE IF SubSeq(hay, i, i + Len(needle) - 1) = needle THEN i
    ELSE StrStrFrom(hay, needle, i + 1)

strstr(hay, needle) == StrStrFrom(hay, needle, 1)

(***************************************************************************)
(* URL parser: H5FD_s3comms_parse_url                                      *)
(***************************************************************************)

NUL == "NUL"

OOB == "OOB"

\* str[i], i counted from 0: the terminator at strlen(str), nothing defined beyond
CharAt(str, i) == IF i < Len(str) THEN str[i + 1] ELSE IF i = Len(str) THEN NUL ELSE OOB

\* the substring str[from .. to-1], strncpy'ed and terminated
Substr(str, from, to) == SubSeq(str, from + 1, to)

NullPurl ==
    [magic |-> "none", scheme |-> NULL, host |-> NULL, port |-> NULL,
     path |-> NULL, query |-> NULL]

\* advance tmpstr while *tmpstr is neither NUL nor one of stops
RECURSIVE ScanTo(_, _, _)
ScanTo(str, i, stops) ==
    IF CharAt(str, i) \in stops \cup {NUL, OOB} THEN i ELSE ScanTo(str, i + 1, stops)

\* while (']' != *tmpstr) tmpstr++;  the test (tmpstr == 0) never holds
RECURSIVE ScanBracket(_, _)
ScanBracket(str, i) ==
    IF CharAt(str, i) \in {"]", OOB} THEN i ELSE ScanBracket(str, i + 1)

SchemeCharOk(c) == IsAlpha(c) \/ c \in {"+", "-", "."}

AllDigits(s) == \A i \in 1..Len(s) : IsDigit(s[i])

ParseFailStores ==
    [ret |-> FAIL, purl |-> [NullPurl EXCEPT !.magic = "PURL"], stored |-> TRUE]

\* done: with ret_value FAIL: the new purl is freed, *_purl was not assigned
ParseFail == [ret |-> FAIL, purl |-> NullPurl, stored |-> FALSE]

ParseOob == [ret |-> OOB, purl |-> NullPurl, stored |-> FALSE]

ParseQueryDropped(str, purl, t) == [ret |-> SUCCEED, purl |-> purl, stored |-> TRUE]

\* READ QUERY, with tmpstr at index t
ParseQuery(str, purl, t) ==
    IF CharAt(str, t) = "?"
    THEN LET e == ScanTo(str, t + 1, {})
         IN  IF e - (t + 1) = 0 THEN ParseFail
             ELSE IF e - (t + 1) > Len(str) THEN ParseFail
             ELSE [ret |-> SUCCEED, purl |-> [purl EXCEPT !.query = Substr(str, t + 1, e)],
                   stored |-> TRUE]
    ELSE [ret |-> SUCCEED, purl |-> purl, stored |-> TRUE]

ParsePathKeepsSlash(str, purl, t) ==
    IF CharAt(str, t) = "/"
    THEN ParseQuery(str, [purl EXCEPT !.path = Substr(str, t, ScanTo(str, t + 1, {"?"}))],
                    ScanTo(str, t + 1, {"?"}))
    ELSE ParseQuery(str, purl, t)

\* READ PATH, with tmpstr at index t
ParsePath(str, purl, t) ==
    IF CharAt(str, t) = "/"
    THEN LET e == ScanTo(str, t + 1, {"?"})
         IN  IF e - (t + 1) > Len(str) THEN ParseFail
             ELSE IF e - (t + 1) > 0
             THEN ParseQuery(str, [purl EXCEPT !.path = Substr(str, t + 1, e)], e)
             ELSE ParseQuery(str, purl, e)
    ELSE ParseQuery(str, purl, t)

\* READ PORT, with tmpstr at index t
ParsePort(str, purl, t) ==
    IF CharAt(str, t) = ":"
    THEN LET e == ScanTo(str, t + 1, {"/", "?"})
         IN  IF e - (t + 1) = 0 THEN ParseFail
             ELSE IF e - (t + 1) > Len(str) THEN ParseFail
             ELSE IF ~AllDigits(Substr(str, t + 1, e)) THEN ParseFail
             ELSE ParsePath(str, [purl EXCEPT !.port = Substr(str, t + 1, e)], e)
    ELSE ParsePath(str, purl, t)

\* READ HOST, with curstr at index c, just past the three characters skipped
ParseHost(str, purl, c) ==
    IF CharAt(str, c) = OOB THEN ParseOob
    ELSE LET e == IF CharAt(str, c) = "["
                  THEN ScanBracket(str, c) + 1
                  ELSE ScanTo(str, c, {":", "/", "?"})
         IN  IF CharAt(str, e - 1) = OOB THEN ParseOob
             ELSE IF e - c = 0 THEN ParseFail
             ELSE IF e - c > Len(str) THEN ParseFail
             ELSE ParsePort(str, [purl EXCEPT !.host = Substr(str, c, e)], e)

\* H5FD_s3comms_parse_url(str, &purl): SUCCEED with the new purl, FAIL, or OOB
\* when a scan reads past the terminator of str
ParseUrl(str) ==
    IF str = NULL \/ str = <<>> THEN ParseFail
    ELSE LET colon == ScanTo(str, 0, {":"})
         IN  IF CharAt(str, colon) # ":" THEN ParseFail
             ELSE IF \E i \in 1..colon : ~SchemeCharOk(str[i]) THEN ParseFail
             ELSE ParseHost(str,
                            [NullPurl EXCEPT !.magic = "PURL",
                                             !.scheme = LowerStr(Substr(str, 0, colon))],
                            colon + 3)

(***************************************************************************)
(* Header list: H5FD_s3comms_hrb_node_set                                  *)
(***************************************************************************)

\* most nodes a caller's list holds
MaxNodes == 3

\* names the callers set: "", "a", "A", "B", "aB" and "c"
HeaderNames == {<<>>, <<"a">>, <<"A">>, <<"B">>, <<"a", "B">>, <<"c">>}

HeaderValues == {<<"v">>, <<" ", "w", " ">>}

\* snprintf(nvcat, catlen + 1, "%s: %s", name, value)
HrbCat(name, value) == name \o <<":", " ">> \o value

HrbLowernameRaw(name) == name

\* for (i = 0; i < namelen; i++) lowername[i] = (char)tolower((int)name[i]);
HrbLowername(name) == LowerStr(name)

\* CREATE: a node of name and value, with the lowername computed on entry
HrbNewNode(name, value, lowername) ==
    [name      |-> name,
     value     |-> value,
     cat       |-> HrbCat(name, value),
     lowername |-> lowername]

HrbErrorIgnored(list) == [L |-> list, ret |-> SUCCEED]

\* HGOTO_ERROR(..., FAIL, ...): leave through done with the list as it stands
HrbError(list) == [L |-> list, ret |-> FAIL]

HrbModifyKeepsCat(node, name, value) ==
    [node EXCEPT !.name = name, !.value = value]

\* MODIFY: the node's name, value and cat are replaced; lowername and next stay
HrbModify(node, name, value) ==
    [node EXCEPT !.name = name, !.value = value, !.cat = HrbCat(name, value)]

HrbRemoveHeadKept(list) == [L |-> list, ret |-> SUCCEED]

\* REMOVE HEAD: *L = ptr->next, and the node is freed
HrbRemoveHead(list) == [L |-> Tail(list), ret |-> SUCCEED]

\* the while (is_looking) loop, with ptr at node p of the list
RECURSIVE HrbSeek(_, _, _, _, _)
HrbSeek(list, p, name, value, lowername) ==
    LET cmp == IF p = Len(list) THEN 0
               ELSE strcmp(lowername, list[p + 1].lowername)
    IN  IF p = Len(list)
        THEN IF value = NULL
             THEN HrbError(list)
             ELSE [L |-> Append(list, HrbNewNode(name, value, lowername)), ret |-> SUCCEED]
        ELSE IF cmp < 0
        THEN IF value = NULL
             THEN HrbError(list)
             ELSE [L   |-> SubSeq(list, 1, p) \o <<HrbNewNode(name, value, lowername)>>
                               \o SubSeq(list, p + 1, Len(list)),
                   ret |-> SUCCEED]
        ELSE IF cmp = 0
        THEN IF value = NULL
             THEN [L   |-> SubSeq(list, 1, p) \o SubSeq(list, p + 2, Len(list)),
                   ret |-> SUCCEED]
             ELSE [L   |-> [list EXCEPT ![p + 1] = HrbModify(list[p + 1], name, value)],
                   ret |-> SUCCEED]
        ELSE HrbSeek(list, p + 1, name, value, lowername)

\* H5FD_s3comms_hrb_node_set(&L, name, value): the list afterwards and the result
HrbNodeSet(list, name, value) ==
    IF name = NULL
    THEN HrbError(list)
    ELSE LET lowername == HrbLowername(name)
             cmp == IF list = <<>> THEN 0 ELSE strcmp(lowername, list[1].lowername)
         IN  IF list = <<>>
             THEN IF value = NULL
                  THEN HrbError(list)
                  ELSE [L |-> <<HrbNewNode(name, value, lowername)>>, ret |-> SUCCEED]
             ELSE IF cmp = 0
             THEN IF value = NULL
                  THEN HrbRemoveHead(list)
                  ELSE [L   |-> <<HrbModify(list[1], name, value)>> \o Tail(list),
                        ret |-> SUCCEED]
             ELSE IF cmp < 0
             THEN IF value = NULL
                  THEN HrbError(list)
                  ELSE [L |-> <<HrbNewNode(name, value, lowername)>> \o list, ret |-> SUCCEED]
             ELSE HrbSeek(list, 1, name, value, lowername)

(***************************************************************************)
(* Canonical request, string to sign and signature                         *)
(***************************************************************************)

EMPTY_SHA256 ==
    << "e", "3", "b", "0", "c", "4", "4", "2", "9", "8", "f", "c", "1", "c", "1", "4",
      "9", "a", "f", "b", "f", "4", "c", "8", "9", "9", "6", "f", "b", "9", "2", "4",
      "2", "7", "a", "e", "4", "1", "e", "4", "6", "4", "9", "b", "9", "3", "4", "c",
      "a", "4", "9", "5", "9", "9", "1", "b", "7", "8", "5", "2", "b", "8", "5", "5" >>

\* SHA256() of OpenSSL followed by bytes_to_hex: an uninterpreted digest of msg
Sha256Hex(msg) == <<"sha256(">> \o msg \o <<")">>

\* H5FD_s3comms_HMAC_SHA256: HMAC() of OpenSSL followed by bytes_to_hex, an
\* uninterpreted digest of the key and the message
HmacSha256Hex(key, msg) == <<"hmac(">> \o key \o <<"|">> \o msg \o <<")">>

RECURSIVE CanonicalHeaderLinesJoined(_)
CanonicalHeaderLinesJoined(list) ==
    IF list = <<>> THEN <<>>
    ELSE Head(list).lowername \o <<":">> \o Head(list).value
             \o CanonicalHeaderLinesJoined(Tail(list))

\* the canonical header lines, "lowername:value\n" per node, in list order
RECURSIVE CanonicalHeaderLines(_)
CanonicalHeaderLines(list) ==
    IF list = <<>> THEN <<>>
    ELSE Head(list).lowername \o <<":">> \o Head(list).value \o <<"\n">>
             \o CanonicalHeaderLines(Tail(list))

\* the signed headers as the loop builds them, "lowername;" per node
RECURSIVE SignedHeadersLoop(_)
SignedHeadersLoop(list) ==
    IF list = <<>> THEN <<>>
    ELSE Head(list).lowername \o <<";">> \o SignedHeadersLoop(Tail(list))

DropNothing(s) == s

\* signed_headers_dest[strlen(signed_headers_dest) - 1] = '\0'
DropLastChar(s) == IF s = <<>> THEN <<>> ELSE SubSeq(s, 1, Len(s) - 1)

\* H5FD_s3comms_aws_canonical_request(dest, signed_headers, request)
AwsCanonicalRequest(request) ==
    LET signed == DropLastChar(SignedHeadersLoop(request.first_header))
    IN  [signed_headers |-> signed,
         creq |-> request.verb \o <<"\n">> \o request.resource \o <<"\n">> \o <<"\n">>
                    \o CanonicalHeaderLines(request.first_header)
                    \o <<"\n">> \o signed \o <<"\n">> \o EMPTY_SHA256]

\* H5FD_s3comms_tostringtosign(dest, req, now, region)
ToStringToSign(req, now, region) ==
    <<"A", "W", "S", "4", "-", "H", "M", "A", "C", "-", "S", "H", "A", "2", "5", "6", "\n">> \o now \o <<"\n">>
        \o SubSeq(now, 1, 8) \o <<"/">> \o region \o <<"/", "s", "3", "/", "a", "w", "s", "4", "_", "r", "e", "q", "u", "e", "s", "t">> \o <<"\n">>
        \o Sha256Hex(req)

\* H5FD_s3comms_hrb_init_request(verb, resource, "HTTP/1.1")
HrbInitRequest(verb, resource) ==
    [verb         |-> verb,
     resource     |-> IF resource # <<>> /\ Head(resource) = "/"
                      THEN resource ELSE <<"/">> \o resource,
     version      |-> <<"H", "T", "T", "P", "/", "1", ".", "1">>,
     first_header |-> <<>>]

\* while (headers != NULL) HDassert(SUCCEED == hrb_node_set(&headers, headers->name, NULL))
RECURSIVE HrbDrain(_)
RECURSIVE HrbDrainStep(_, _)
HrbDrainStep(list, r) ==
    IF r.ret = FAIL THEN [L |-> list, ok |-> FALSE] ELSE HrbDrain(r.L)

HrbDrain(list) ==
    IF list = <<>> THEN [L |-> <<>>, ok |-> TRUE]
    ELSE HrbDrainStep(list, HrbNodeSet(list, list[1].name, NULL))

(***************************************************************************)
(* The curl easy handle and the server behind it                           *)
(***************************************************************************)

\* no easy handle: what curl_easy_cleanup leaves
NoCurl ==
    [live |-> FALSE, nobody |-> FALSE, headerdata |-> "unset", writedata |-> "default",
     range |-> NULL, httpheader |-> <<>>, url |-> NULL]

\* curl_easy_init() and the options s3r_open sets on it
CurlOpened(url) == [NoCurl EXCEPT !.live = TRUE, !.url = url]

NoRequest ==
    [sent |-> FALSE, method |-> "none", url |-> NULL, range |-> NULL, headers |-> <<>>]

\* the value of the request header named prefix ("Name: "), NULL when there is none
RECURSIVE HeaderValue(_, _)
HeaderValue(headers, prefix) ==
    IF headers = <<>> THEN NULL
    ELSE IF Len(Head(headers)) >= Len(prefix)
            /\ SubSeq(Head(headers), 1, Len(prefix)) = prefix
    THEN SubSeq(Head(headers), Len(prefix) + 1, Len(Head(headers)))
    ELSE HeaderValue(Tail(headers), prefix)

\* the byte-range-set the request carries: CURLOPT_RANGE, else a Range header
\* without its "bytes=" unit; NULL when the request has no range
RangeHeaderSpec(v) ==
    IF v = NULL THEN NULL ELSE SubSeq(v, Len(<<"b", "y", "t", "e", "s", "=">>) + 1, Len(v))

RequestRangeSpec(req) ==
    IF req.range # NULL THEN req.range
    ELSE RangeHeaderSpec(HeaderValue(req.headers, <<"R", "a", "n", "g", "e", ":", " ">>))

RangeFirst(spec) == DigitsValue(spec, 0)

\* the text after the '-' of "first-last" or "first-"
RangeLastText(spec) == SubSeq(spec, strstr(spec, <<"-">>) + 1, Len(spec))

\* bytes first .. last of the object; byte i of the object has the value i
RECURSIVE ObjectBytes(_, _)
ObjectBytes(first, last) ==
    IF last < first THEN <<>> ELSE <<first>> \o ObjectBytes(first + 1, last)

WholeObject(size) == [status |-> 200, body |-> ObjectBytes(0, size - 1)]

\* the answer to first-last (lastText not empty) or first- (lastText empty)
RangeResponse(first, lastText, last, size) ==
    IF lastText # <<>> /\ last < first THEN WholeObject(size)
    ELSE IF first >= size THEN [status |-> 416, body |-> <<>>]
    ELSE [status |-> 206,
          body |-> ObjectBytes(first,
                               IF lastText = <<>> \/ last > size - 1 THEN size - 1 ELSE last)]

RangeSpecResponse(spec, lastText, size) ==
    RangeResponse(RangeFirst(spec), lastText, DigitsValue(lastText, 0), size)

SpecResponse(spec, size) ==
    IF spec = NULL THEN WholeObject(size)
    ELSE RangeSpecResponse(spec, RangeLastText(spec), size)

\* a server that honours byte ranges (RFC 7233): first-byte-pos and last-byte-pos
\* are both inclusive, a last-byte-pos beyond the end is cut to the end, a
\* last-byte-pos below first-byte-pos makes the range invalid and ignored, a
\* first-byte-pos beyond the end is answered 416
ServerResponse(req, size) == SpecResponse(RequestRangeSpec(req), size)

\* the request as the options of the easy handle make it
CurlRequest(c) ==
    [sent |-> TRUE, method |-> IF c.nobody THEN "HEAD" ELSE "GET", url |-> c.url,
     range |-> c.range, headers |-> c.httpheader]

CurlKeepRequestOpts(c) == c

\* curl_easy_setopt(curlh, CURLOPT_RANGE, NULL); curl_easy_setopt(curlh, CURLOPT_HTTPHEADER, NULL)
CurlClearRequestOpts(c) == [c EXCEPT !.range = NULL, !.httpheader = <<>>]

\* H5MM_xfree(sds): a CURLOPT_WRITEDATA that pointed at it now dangles
CurlFreeSds(c) == [c EXCEPT !.writedata = IF @ = "sds" THEN "freed" ELSE @]

(***************************************************************************)
(* Request handle: H5FD_s3comms_s3r_read                                   *)
(***************************************************************************)

\* the stages of read in which a step can fail for a reason outside the
\* program (an allocation, a curl option, the clock, the transfer), named after
\* the banners of the code; at most one fails per call
ReadFaults == {"none", "writedata", "request", "perform"}

NoHandle ==
    [magic |-> "none", purl |-> NullPurl, filesize |-> 0, region |-> NULL,
     secret_id |-> NULL, signing_key |-> NULL, httpverb |-> NULL, curlhandle |-> "none"]

EmptySink == [data |-> <<>>, stray |-> FALSE]

\* offset > handle->filesize || (len + offset) > handle->filesize
ReadPastEof(h, offset, len) ==
    offset > h.filesize \/ AddrAdd(len, offset) > h.filesize

\* snprintf(rangebytesstr, ..., "bytes=%llu-%llu", offset, offset + len), or
\* "bytes=%llu-" for a read to the end, or no range string at all
RangeBytesStr(offset, len) ==
    IF len > 0
    THEN <<"b", "y", "t", "e", "s", "=">> \o Dec(offset) \o <<"-">> \o Dec(AddrAdd(offset, len))
    ELSE IF offset > 0
    THEN <<"b", "y", "t", "e", "s", "=">> \o Dec(offset) \o <<"-">>
    ELSE NULL

\* bytesrange_ptr: the first character past the '=' of rangebytesstr
PastEquals(s) == SubSeq(s, strstr(s, <<"=">>) + 1, Len(s))

\* the Range node of a signed read, when there is a range
ReadRangeHeader(list, rangebytesstr) ==
    IF rangebytesstr # NULL THEN HrbNodeSet(list, <<"R", "a", "n", "g", "e">>, rangebytesstr).L ELSE list

\* the header list of a signed read before Authorization is added
ReadHeaders(h, rangebytesstr, now) ==
    HrbNodeSet(
        HrbNodeSet(
            ReadRangeHeader(HrbNodeSet(<<>>, <<"H", "o", "s", "t">>, h.purl.host).L, rangebytesstr),
            <<"x", "-", "a", "m", "z", "-", "c", "o", "n", "t", "e", "n", "t", "-", "s", "h", "a", "2", "5", "6">>, EMPTY_SHA256).L,
        <<"x", "-", "a", "m", "z", "-", "d", "a", "t", "e">>, now).L

\* "AWS4-HMAC-SHA256 Credential=<id>/<date>/<region>/s3/aws4_request,
\*  SignedHeaders=<signed headers>,Signature=<hex>", cr: the canonical request
AuthorizationValue(h, cr, now) ==
    <<"A", "W", "S", "4", "-", "H", "M", "A", "C", "-", "S", "H", "A", "2", "5", "6", " ", "C", "r", "e", "d", "e", "n", "t", "i", "a", "l", "=">>
        \o h.secret_id \o <<"/">> \o SubSeq(now, 1, 8) \o <<"/">> \o h.region
        \o <<"/", "s", "3", "/", "a", "w", "s", "4", "_", "r", "e", "q", "u", "e", "s", "t">>
        \o <<",", "S", "i", "g", "n", "e", "d", "H", "e", "a", "d", "e", "r", "s", "=">> \o cr.signed_headers
        \o <<",", "S", "i", "g", "n", "a", "t", "u", "r", "e", "=">>
        \o HmacSha256Hex(h.signing_key, ToStringToSign(cr.creq, now, h.region))

\* the value of the Authorization header of a signed read
ReadAuthorization(h, headers, now) ==
    AuthorizationValue(
        h,
        AwsCanonicalRequest(
            [HrbInitRequest(h.httpverb, h.purl.path) EXCEPT !.first_header = headers]),
        now)

\* curl_slist_append over the list: the "name: value" strings, in list order
RECURSIVE HeaderCats(_)
HeaderCats(list) ==
    IF list = <<>> THEN <<>> ELSE <<Head(list).cat>> \o HeaderCats(Tail(list))

ReadResult(c, ret, w, data, stray, crash, hdr) ==
    [ret |-> ret, curl |-> c, wire |-> w, sink |-> [data |-> data, stray |-> stray],
     crashed |-> crash, hdr |-> hdr]

ReadDoneSkipped(c, ret, w, data, stray, crash, hdr) ==
    ReadResult(c, ret, w, data, stray, crash, hdr)

\* done:, reached with curlh set: the sds is freed and the request options cleared
ReadDone(c, ret, w, data, stray, crash, hdr) ==
    ReadResult(CurlClearRequestOpts(CurlFreeSds(c)), ret, w, data, stray, crash, hdr)

\* curlwritecallback on the body of the response, then done:.  The body goes
\* to CURLOPT_WRITEDATA; when that is not the sds of this call the memcpy lands
\* in memory the call does not own, and the process stops (ub = "crash") or goes
\* on with the bytes misplaced (ub = "stray").  drained: the header list was
\* emptied at done (an HDassert otherwise).
CurlWriteCallback(c, req, ok, body, head, ub, drained) ==
    ReadDone(c,
             IF ok THEN SUCCEED ELSE FAIL,
             req,
             IF body # <<>> /\ c.writedata # "sds" THEN <<>> ELSE body,
             body # <<>> /\ c.writedata # "sds" /\ ub = "stray",
             (body # <<>> /\ c.writedata # "sds" /\ ub = "crash") \/ ~drained,
             IF ok /\ c.headerdata = "getsize_sds" THEN head ELSE <<>>)

\* the transfer: it succeeds unless it is cut (fault) or CURLOPT_FAILONERROR
\* sees a status of 400 or more; a HEAD (CURLOPT_NOBODY) has no body; the
\* response headers go to CURLOPT_HEADERDATA when it is set
ReadTransfer(c, req, resp, head, fault, ub, drained) ==
    CurlWriteCallback(c, req,
                      fault # "perform" /\ resp.status < 400,
                      IF fault # "perform" /\ resp.status < 400 /\ ~c.nobody
                      THEN resp.body ELSE <<>>,
                      head, ub, drained)

\* curl_easy_perform(curlh) with the options as they stand
ReadPerform(c, size, head, fault, ub, drained) ==
    ReadTransfer(c, CurlRequest(c), ServerResponse(CurlRequest(c), size),
                 head, fault, ub, drained)

\* the signed request goes out with the list as CURLOPT_HTTPHEADER
ReadSend(c, headers, size, head, fault, ub) ==
    ReadPerform([c EXCEPT !.httpheader = HeaderCats(headers)], size, head, fault, ub,
                HrbDrain(headers).ok)

\* authenticate request: Authorization is computed over the other headers and added
ReadSigned(h, c, unsigned, size, head, fault, now, ub) ==
    ReadSend(c,
             HrbNodeSet(unsigned, <<"A", "u", "t", "h", "o", "r", "i", "z", "a", "t", "i", "o", "n">>, ReadAuthorization(h, unsigned, now)).L,
             size, head, fault, ub)

\* FORMAT HTTP RANGE and COMPILE REQUEST, with CURLOPT_WRITEDATA as c has it
ReadCompile(h, c, rangebytesstr, size, head, fault, now, ub) ==
    IF rangebytesstr # NULL /\ fault = "request"
    THEN ReadDone(c, FAIL, NoRequest, <<>>, FALSE, FALSE, <<>>)
    ELSE IF h.signing_key = NULL
    THEN ReadPerform(IF rangebytesstr # NULL
                     THEN [c EXCEPT !.range = PastEquals(rangebytesstr)]
                     ELSE c,
                     size, head, fault, ub, TRUE)
    ELSE IF \/ h.region = NULL
            \/ h.secret_id = NULL
            \/ h.httpverb = NULL
            \/ h.purl.host = NULL
            \/ h.purl.path = NULL
            \/ fault = "request"
    THEN ReadDone(c, FAIL, NoRequest, <<>>, FALSE, FALSE, <<>>)
    ELSE ReadSigned(h, c, ReadHeaders(h, rangebytesstr, now), size, head, fault, now, ub)

\* H5FD_s3comms_s3r_read(handle, offset, len, dest) on a server object of size
\* bytes whose HEAD response headers are head; dest: a destination is given
S3rRead(h, c, size, head, offset, len, dest, fault, now, ub) ==
    IF \/ h.magic = "none"
       \/ h.curlhandle = "none"
       \/ h.purl.magic = "none"
       \/ ReadPastEof(h, offset, len)
    THEN ReadResult(c, FAIL, NoRequest, <<>>, FALSE, FALSE, <<>>)
    ELSE IF dest /\ fault = "writedata"
    THEN ReadDone(c, FAIL, NoRequest, <<>>, FALSE, FALSE, <<>>)
    ELSE ReadCompile(h, IF dest THEN [c EXCEPT !.writedata = "sds"] ELSE c,
                     RangeBytesStr(offset, len), size, head, fault, now, ub)

(***************************************************************************)
(* Request handle: H5FD_s3comms_s3r_getsize, s3r_open, s3r_close           *)
(***************************************************************************)

\* the blocks a handle owns; heap counts, per kind, allocations less releases
HeapKinds == {"purl", "handle", "region", "secret_id", "signing_key", "httpverb", "curl"}

EmptyHeap == [k \in HeapKinds |-> 0]

\* H5MM_malloc, curl_easy_init and the allocation of parse_url
Alloc(hp, k) == [hp EXCEPT ![k] = @ + 1]

\* the release of a block that is there: curl_easy_cleanup, free_purl, xfree(h)
Release(hp, k) == [hp EXCEPT ![k] = @ - 1]

\* H5MM_xfree(ptr): nothing happens for a null ptr
Free(hp, k, ptr) == IF ptr = NULL THEN hp ELSE Release(hp, k)

CRLF == <<"\r", "\n">>

ContentLengthMarker == <<"\r", "\n", "C", "o", "n", "t", "e", "n", "t", "-", "L", "e", "n", "g", "t", "h", ":", " ">>

StatusLine == <<"H", "T", "T", "P", "/", "1", ".", "1", " ", "2", "0", "0", " ", "O", "K">>

\* the response headers to a HEAD on an object of size bytes, as the header
\* callback appends them to the buffer; kind selects a well-formed response or
\* one of the responses getsize has to refuse
HeadResponse(kind, size) ==
    CASE kind = "ok"        -> StatusLine \o ContentLengthMarker \o Dec(size) \o CRLF \o CRLF
      [] kind = "nomarker"  -> StatusLine \o CRLF \o CRLF
      [] kind = "lowercase" -> StatusLine \o <<"\r", "\n", "c", "o", "n", "t", "e", "n", "t", "-", "l", "e", "n", "g", "t", "h", ":", " ">> \o Dec(size) \o CRLF \o CRLF
      [] kind = "nocrlf"    -> StatusLine \o ContentLengthMarker \o Dec(size)
      [] kind = "zero"      -> StatusLine \o ContentLengthMarker \o Dec(0) \o CRLF \o CRLF
      [] kind = "max"       -> StatusLine \o ContentLengthMarker \o Dec(ULONG_MAX) \o CRLF \o CRLF
      [] kind = "overflow"  -> StatusLine \o ContentLengthMarker \o Dec(Modulus) \o CRLF \o CRLF
      [] kind = "text"      -> StatusLine \o ContentLengthMarker \o <<"x">> \o CRLF \o CRLF
      [] kind = "octal"     -> StatusLine \o ContentLengthMarker \o <<"0", "1", "0">> \o CRLF \o CRLF

HeadKinds ==
    {"ok", "nomarker", "lowercase", "nocrlf", "zero", "max", "overflow", "text", "octal"}

\* what the bytes of headerresponse[] past the received headers hold when the
\* stack is stale: the array is not initialised and the callback writes no
\* terminator, so strstr runs on into what an earlier getsize on the same
\* object left there
StaleStack(size) == ContentLengthMarker \o Dec(size) \o CRLF

GetsizeResult(ret, h, c, hp, w, crash) ==
    [ret |-> ret, handle |-> h, curl |-> c, heap |-> hp, wire |-> w, crashed |-> crash]

\* UNDO HEAD SETTINGS of getsize, once strtoul has returned n
GetsizeValue(h, c, hp, w, n, errno, fault) ==
    IF n.value = 0 \/ n.value = ULONG_MAX \/ n.erange \/ errno = "ERANGE"
    THEN GetsizeResult(FAIL, h, c, hp, w, FALSE)
    ELSE IF fault = "setopt_nobody_off"
    THEN GetsizeResult(FAIL, [h EXCEPT !.filesize = n.value], c, hp, w, FALSE)
    ELSE IF fault = "setopt_headerdata_off"
    THEN GetsizeResult(FAIL, [h EXCEPT !.filesize = n.value],
                       [c EXCEPT !.nobody = FALSE], hp, w, FALSE)
    ELSE GetsizeResult(SUCCEED, [h EXCEPT !.filesize = n.value],
                       [c EXCEPT !.nobody = FALSE, !.headerdata = "unset"], hp, w, FALSE)

\* end = strstr(start, "\r\n"), with start at the first character of rest
GetsizeLine(h, c, hp, w, rest, end, errno, fault) ==
    IF end = 0 THEN GetsizeResult(FAIL, h, c, hp, w, FALSE)
    ELSE GetsizeValue(h, c, hp, w, strtoul(SubSeq(rest, 1, end - 1)), errno, fault)

\* start = strstr(headerresponse, "\r\nContent-Length: "), at position start of buf
GetsizeMarker(h, c, hp, w, buf, start, errno, fault) ==
    IF start = 0 THEN GetsizeResult(FAIL, h, c, hp, w, FALSE)
    ELSE GetsizeLine(h, c, hp, w,
                     SubSeq(buf, start + Len(ContentLengthMarker), Len(buf)),
                     strstr(SubSeq(buf, start + Len(ContentLengthMarker), Len(buf)), CRLF),
                     errno, fault)

\* PARSE RESPONSE and UNDO HEAD SETTINGS of getsize, on the buffer buf
GetsizeParse(h, c, hp, w, buf, errno, fault) ==
    GetsizeMarker(h, c, hp, w, buf, strstr(buf, ContentLengthMarker), errno, fault)

\* getsize after its read has returned r
GetsizeRead(h, hp, r, size, env) ==
    IF r.ret = FAIL
    THEN GetsizeResult(FAIL, h, r.curl, hp, r.wire, r.crashed)
    ELSE GetsizeParse(h, r.curl, hp, r.wire,
                      r.hdr \o (IF env.stale THEN StaleStack(size) ELSE <<>>),
                      env.errno, env.fault)

\* H5FD_s3comms_s3r_getsize(handle); env: the HEAD response (head), whether
\* the stack under the header buffer is stale, errno on entry, the step that fails
S3rGetsize(h, c, hp, size, env, now) ==
    IF h.magic # "S3R" \/ h.curlhandle = "none"
    THEN GetsizeResult(FAIL, h, c, hp, NoRequest, FALSE)
    ELSE IF env.fault = "setopt_nobody"
    THEN GetsizeResult(FAIL, h, c, hp, NoRequest, FALSE)
    ELSE IF env.fault = "setopt_headerdata"
    THEN GetsizeResult(FAIL, h, [c EXCEPT !.nobody = TRUE], hp, NoRequest, FALSE)
    ELSE IF h.httpverb # NULL
    THEN GetsizeResult(FAIL, h, [c EXCEPT !.nobody = TRUE, !.headerdata = "getsize_sds"],
                       hp, NoRequest, TRUE)
    ELSE IF env.fault = "alloc_verb"
    THEN GetsizeResult(FAIL, h, [c EXCEPT !.nobody = TRUE, !.headerdata = "getsize_sds"],
                       hp, NoRequest, FALSE)
    ELSE GetsizeRead([h EXCEPT !.httpverb = <<"H", "E", "A", "D">>],
                     Alloc(hp, "httpverb"),
                     S3rRead([h EXCEPT !.httpverb = <<"H", "E", "A", "D">>],
                             [c EXCEPT !.nobody = TRUE, !.headerdata = "getsize_sds"],
                             size, HeadResponse(env.head, size), 0, 0, FALSE,
                             env.fault, now, "crash"),
                     size, env)

\* a string argument counts as given when it is non-null and its first byte is
\* not zero: (region != NULL && *region != '\0')
StrGiven(s) == s # NULL /\ s # <<>>

\* the same test on the key, whose bytes are binary: "00" is the zero byte
KeyGiven(key) == key # NULL /\ Head(key) # "00"

\* what getsize left when it returned to open: its return value, the verb
\* label, the two HEAD options of the easy handle, and whether it got as far
\* as setting both of them
NoGetsize ==
    [called |-> FALSE, ret |-> "none", httpverb |-> NULL, nobody |-> FALSE,
     headerdata |-> "unset", crashed |-> FALSE]

GetsizeExit(g) ==
    [called |-> TRUE, ret |-> g.ret, httpverb |-> g.handle.httpverb, nobody |-> g.curl.nobody,
     headerdata |-> g.curl.headerdata, crashed |-> g.crashed]

OpenResult(ret, h, c, hp, w, crash) ==
    [ret |-> ret, handle |-> h, curl |-> c, heap |-> hp, wire |-> w, crashed |-> crash,
     getsize |-> NoGetsize]

OpenCleanupKeepsVerb(hp, h, c) ==
    LET hp1 == IF c.live THEN Release(hp, "curl") ELSE hp
        hp2 == IF h.purl.magic = "none" THEN hp1 ELSE Release(hp1, "purl")
    IN  IF h.magic = "none" THEN hp2
        ELSE Release(Free(Free(Free(hp2, "region", h.region),
                                    "secret_id", h.secret_id),
                               "signing_key", h.signing_key),
                     "handle")

\* done: of open with ret_value == NULL; h: the handle as far as it was built
\* (h.magic "none": not allocated, h.purl: the parsed url), c: the easy handle
OpenCleanup(hp, h, c) ==
    LET hp1 == IF c.live THEN Release(hp, "curl") ELSE hp
        hp2 == IF h.purl.magic = "none" THEN hp1 ELSE Release(hp1, "purl")
    IN  IF h.magic = "none" THEN hp2
        ELSE Release(Free(Free(Free(Free(hp2, "region", h.region),
                                         "secret_id", h.secret_id),
                                    "signing_key", h.signing_key),
                               "httpverb", h.httpverb),
                     "handle")

\* open leaves through done with nothing to return
OpenFail(hp, h, c, w) == OpenResult("null", NoHandle, NoCurl, OpenCleanup(hp, h, c), w, FALSE)

\* the outcome of parse_url in open; a scan that leaves the string reads what
\* lies behind it (env.past): an unmapped page, a zero byte, or some byte "G"
\* followed by a zero byte, which is then taken for the host
OpenParseResult(url, p, env) ==
    IF p.ret # OOB
    THEN [ret |-> p.ret, purl |-> p.purl, stored |-> p.stored, crashed |-> FALSE]
    ELSE IF env.past = "fault"
    THEN [ret |-> FAIL, purl |-> NullPurl, stored |-> FALSE, crashed |-> TRUE]
    ELSE IF env.past = NUL
    THEN [ret |-> FAIL, purl |-> NullPurl, stored |-> FALSE, crashed |-> FALSE]
    ELSE [ret |-> SUCCEED, stored |-> TRUE,
          purl |-> [NullPurl EXCEPT !.magic = "PURL",
                                    !.scheme = LowerStr(Substr(url, 0, ScanTo(url, 0, {":"}))),
                                    !.host = <<env.past>>],
          crashed |-> FALSE]

OpenParse(url, env) == OpenParseResult(url, ParseUrl(url), env)

OpenVerbKept(g) == OpenResult("handle", g.handle, g.curl, g.heap, g.wire, FALSE)

\* HDmemcpy(h->httpverb, "GET", 4)
OpenVerb(g) ==
    OpenResult("handle", [g.handle EXCEPT !.httpverb = <<"G", "E", "T">>],
               g.curl, g.heap, g.wire, FALSE)

\* FINAL PREPARATION of open, after getsize has returned g
OpenFinishStep(g) ==
    IF g.crashed THEN OpenResult("null", g.handle, g.curl, g.heap, g.wire, TRUE)
    ELSE IF g.ret = FAIL THEN OpenFail(g.heap, g.handle, g.curl, g.wire)
    ELSE IF g.handle.httpverb = NULL
    THEN OpenResult("null", g.handle, g.curl, g.heap, g.wire, TRUE)
    ELSE OpenVerb(g)

OpenFinish(g) == [OpenFinishStep(g) EXCEPT !.getsize = GetsizeExit(g)]

\* INITIATE CURL HANDLE and GET FILE SIZE of open
OpenConnect(url, h, hp, size, env, now) ==
    IF env.fault = "curl_init" THEN OpenFail(hp, h, NoCurl, NoRequest)
    ELSE IF env.fault = "setopt_open"
    THEN OpenFail(Alloc(hp, "curl"), h, [NoCurl EXCEPT !.live = TRUE], NoRequest)
    ELSE OpenFinish(S3rGetsize([h EXCEPT !.curlhandle = "curlh"], CurlOpened(url),
                               Alloc(hp, "curl"), size, env, now))

\* RECORD AUTHENTICATION INFORMATION of open
OpenCredentials(url, h, hp, region, id, key, size, env, now) ==
    IF StrGiven(region) \/ StrGiven(id) \/ KeyGiven(key)
    THEN IF ~StrGiven(region) \/ ~StrGiven(id) \/ ~KeyGiven(key)
         THEN OpenFail(hp, h, NoCurl, NoRequest)
         ELSE IF env.fault = "alloc_region" THEN OpenFail(hp, h, NoCurl, NoRequest)
         ELSE IF env.fault = "alloc_secret_id"
         THEN OpenFail(Alloc(hp, "region"), [h EXCEPT !.region = region], NoCurl, NoRequest)
         ELSE IF env.fault = "alloc_signing_key"
         THEN OpenFail(Alloc(Alloc(hp, "region"), "secret_id"),
                       [h EXCEPT !.region = region, !.secret_id = id], NoCurl, NoRequest)
         ELSE OpenConnect(url,
                          [h EXCEPT !.region = region, !.secret_id = id, !.signing_key = key],
                          Alloc(Alloc(Alloc(hp, "region"), "secret_id"), "signing_key"),
                          size, env, now)
    ELSE OpenConnect(url, h, hp, size, env, now)

\* open after parse_url has returned p
OpenParsed(url, p, region, id, key, hp, size, env, now) ==
    IF p.crashed THEN OpenResult("null", NoHandle, NoCurl, hp, NoRequest, TRUE)
    ELSE IF p.ret = FAIL THEN OpenFail(hp, NoHandle, NoCurl, NoRequest)
    ELSE IF env.fault = "alloc_handle"
    THEN OpenFail(Alloc(hp, "purl"), [NoHandle EXCEPT !.purl = p.purl], NoCurl, NoRequest)
    ELSE OpenCredentials(url,
                         [NoHandle EXCEPT !.magic = "S3R", !.purl = p.purl],
                         Alloc(Alloc(hp, "purl"), "handle"),
                         region, id, key, size, env, now)

\* H5FD_s3comms_s3r_open(url, region, id, signing_key); ret is "handle" when a
\* handle is returned and "null" when none is
S3rOpen(url, region, id, key, hp, size, env, now) ==
    IF url = NULL \/ url = <<>> THEN OpenFail(hp, NoHandle, NoCurl, NoRequest)
    ELSE OpenParsed(url, OpenParse(url, env), region, id, key, hp, size, env, now)

CloseResult(ret, h, c, hp) == [ret |-> ret, handle |-> h, curl |-> c, heap |-> hp]

CloseNullSucceeds(h, c, hp) == CloseResult(SUCCEED, h, c, hp)

\* close with handle == NULL: HGOTO_ERROR(..., FAIL, "handle cannot be null.")
CloseNull(h, c, hp) == CloseResult(FAIL, h, c, hp)

\* H5FD_s3comms_s3r_close(handle); isnull: the argument is NULL, and then h, c
\* and hp are the state the call must leave alone
S3rClose(isnull, h, c, hp) ==
    IF isnull THEN CloseNull(h, c, hp)
    ELSE IF h.magic # "S3R" THEN CloseResult(FAIL, h, c, hp)
    ELSE CloseResult(SUCCEED, NoHandle, NoCurl,
                     Release(Release(Free(Free(Free(Free(Release(hp, "curl"),
                                                         "secret_id", h.secret_id),
                                                    "region", h.region),
                                               "signing_key", h.signing_key),
                                          "httpverb", h.httpverb),
                                     "purl"),
                             "handle"))

\* a call by a caller of hrb_node_set on the list under test
HrbNodeSetCall ==
    /\ creq_call.op = "none"
    /\ \E name \in HeaderNames \cup {NULL}, value \in HeaderValues \cup {NULL} :
          LET r == HrbNodeSet(L, name, value)
          IN  /\ Len(r.L) <= MaxNodes
              /\ L' = r.L
              /\ hrb_call' = [prev |-> L, name |-> name, value |-> value, ret |-> r.ret]
    /\ UNCHANGED varsS3r
    /\ UNCHANGED <<varsUrl, varsAws, varsUtil>>

HdrInit ==
    /\ L = <<>>
    /\ hrb_call = [prev |-> <<>>, name |-> NULL, value |-> NULL, ret |-> "none"]

(***************************************************************************)
(* Callers of the request handle                                           *)
(***************************************************************************)

\* size in bytes of the object the server holds
ObjSize == 2

\* offsets asked for: up to one past the end of the object
OffsetInputs == 0 .. ObjSize + 1

\* lengths asked for: none, one byte, and the largest there is
LenInputs == {0, 1, ULONG_MAX}

UrlInputs ==
    {NULL, <<>>, <<"h">>, <<"h", ":">>, <<"1", ":", "/", "/", "b">>, <<"h", ":", "/", "/">>,
     <<"H", ":", "/", "/", "b", "/", "p">>}

RegionInputs == {NULL, <<>>, <<"r">>}

IdInputs == {NULL, <<>>, <<"i">>}

\* keys are binary: "00" is a zero byte, which is a legal first byte of a key
KeyInputs == {NULL, <<"00", "k">>, <<"k", "k">>}

Credentials(region, id, key) == [region |-> region, id |-> id, key |-> key]

NoCredentials == Credentials(NULL, NULL, NULL)

FullCredentials == Credentials(<<"r">>, <<"i">>, <<"k", "k">>)

CredentialInputs ==
    {Credentials(region, id, key) : region \in RegionInputs, id \in IdInputs, key \in KeyInputs}

\* the urls of UrlInputs that parse_url accepts, and those it leaves the string on
GoodUrls == {u \in UrlInputs : ParseUrl(u).ret = SUCCEED}

PastEndUrls == {u \in UrlInputs : ParseUrl(u).ret = OOB}

\* the clock read by gmnow(), as strftime formats it
NowValues == {<<"2", "0", "1", "3", "0", "5", "2", "4", "T", "0", "0", "0", "0", "0", "0", "Z">>}

NoFault == [fault |-> "none", head |-> "ok", stale |-> FALSE, errno |-> "0", past |-> NUL]

OpenFaults ==
    {"alloc_handle", "alloc_region", "alloc_secret_id", "alloc_signing_key",
     "curl_init", "setopt_open", "setopt_nobody", "setopt_headerdata", "alloc_verb",
     "setopt_nobody_off", "setopt_headerdata_off"} \cup ReadFaults

\* what an open call meets: at most one step fails, or the HEAD response is
\* one of HeadKinds over a stack that is stale or not, or errno is still ERANGE
\* from an earlier call, or a read past the end of the url finds env.past
OpenEnvs ==
    {[NoFault EXCEPT !.fault = f] : f \in OpenFaults}
        \cup {[NoFault EXCEPT !.head = k, !.stale = t] :
                 k \in HeadKinds \ {"octal"}, t \in BOOLEAN}
        \cup {[NoFault EXCEPT !.errno = "ERANGE"]}

OpenCall(url, cred, env) == [url |-> url, cred |-> cred, env |-> env]

\* the open calls made: every url; on a url that parses, every combination of
\* credentials, and everything that can go wrong with no credentials and with
\* all three; a Content-Length with a leading zero, with no credentials; on a
\* url that parse_url leaves, everything found behind it
OpenCalls ==
    {OpenCall(url, NoCredentials, NoFault) : url \in UrlInputs}
        \cup {OpenCall(url, cred, NoFault) : url \in GoodUrls, cred \in CredentialInputs}
        \cup {OpenCall(url, cred, env) :
                 url \in GoodUrls, cred \in {NoCredentials, FullCredentials}, env \in OpenEnvs}
        \cup {OpenCall(url, NoCredentials, [NoFault EXCEPT !.head = "octal"]) : url \in GoodUrls}
        \cup {OpenCall(url, NoCredentials, [NoFault EXCEPT !.past = p]) :
                 url \in PastEndUrls, p \in {"fault", "G"}}

\* what a read call meets: at most one step fails; a write through a stale
\* CURLOPT_WRITEDATA stops the process or lands somewhere
ReadEnvs ==
    {[fault |-> f, ub |-> "crash"] : f \in ReadFaults} \cup {[fault |-> "none", ub |-> "stray"]}

\* the last call, for the record: what was passed, what came back, the step
\* of an open that failed for an outside reason (fault), whether an open had
\* a url that parses and met nothing that fails (clean), the state
\* it found (pre), whether the call before it failed (prev_failed), whether
\* the call before it sent a request with a range (prev_ranged), and for an
\* open the response headers its HEAD meets (response) and whether the stack
\* under the header buffer was stale
CallRecord(op, ret, offset, len, dest, region, id, key, isnull) ==
    [op |-> op, ret |-> ret, offset |-> offset, len |-> len, dest |-> dest,
     region |-> region, id |-> id, key |-> key, isnull |-> isnull,
     pre |-> [handle |-> handle, curl |-> curl, heap |-> heap],
     prev_failed |-> s3r_call.ret = FAIL,
     prev_ranged |-> wire.sent /\ RequestRangeSpec(wire) # NULL,
     response |-> <<>>, stale |-> FALSE, getsize |-> NoGetsize, fault |-> "none",
     clean |-> FALSE]

\* the caller takes what open returned
OpenReturn(call, r) ==
    /\ handle' = r.handle
    /\ curl' = r.curl
    /\ heap' = r.heap
    /\ wire' = r.wire
    /\ sink' = EmptySink
    /\ crashed' = r.crashed
    /\ s3r_call' = [CallRecord("open", r.ret, 0, 0, FALSE,
                               call.cred.region, call.cred.id, call.cred.key, FALSE)
                        EXCEPT !.response = HeadResponse(call.env.head, objsize),
                               !.stale = call.env.stale,
                               !.getsize = r.getsize,
                               !.fault = call.env.fault,
                               !.clean = (call.env = NoFault /\ call.url \in GoodUrls)]

S3rOpenCall ==
    /\ ~crashed
    /\ handle.magic = "none"
    /\ \E call \in OpenCalls, now \in NowValues :
          OpenReturn(call, S3rOpen(call.url, call.cred.region, call.cred.id, call.cred.key,
                                   heap, objsize, call.env, now))
    /\ UNCHANGED <<objsize, L, hrb_call>>
    /\ UNCHANGED <<varsUrl, varsAws, varsUtil>>

\* the caller takes what read returned
ReadReturn(offset, len, dest, r) ==
    /\ curl' = r.curl
    /\ wire' = r.wire
    /\ sink' = r.sink
    /\ crashed' = r.crashed
    /\ s3r_call' = CallRecord("read", r.ret, offset, len, dest, NULL, NULL, NULL, FALSE)

S3rReadCall ==
    /\ ~crashed
    /\ handle.magic = "S3R"
    /\ \E offset \in OffsetInputs, len \in LenInputs, dest \in BOOLEAN,
          env \in ReadEnvs, now \in NowValues :
          ReadReturn(offset, len, dest,
                     S3rRead(handle, curl, objsize, <<>>, offset, len, dest,
                             env.fault, now, env.ub))
    /\ UNCHANGED <<handle, heap, objsize, L, hrb_call>>
    /\ UNCHANGED <<varsUrl, varsAws, varsUtil>>

\* the caller takes what close returned
CloseReturn(isnull, r) ==
    /\ handle' = r.handle
    /\ curl' = r.curl
    /\ heap' = r.heap
    /\ s3r_call' = CallRecord("close", r.ret, 0, 0, FALSE, NULL, NULL, NULL, isnull)

S3rCloseCall ==
    /\ ~crashed
    /\ \E isnull \in BOOLEAN :
          /\ isnull \/ handle.magic = "S3R"
          /\ CloseReturn(isnull, S3rClose(isnull, handle, curl, heap))
    /\ wire' = NoRequest
    /\ sink' = EmptySink
    /\ UNCHANGED <<crashed, objsize, L, hrb_call>>
    /\ UNCHANGED <<varsUrl, varsAws, varsUtil>>

S3rInit ==
    /\ objsize = ObjSize
    /\ handle = NoHandle
    /\ curl = NoCurl
    /\ heap = EmptyHeap
    /\ wire = NoRequest
    /\ sink = EmptySink
    /\ crashed = FALSE
    /\ s3r_call = [op |-> "none", ret |-> "none", offset |-> 0, len |-> 0, dest |-> FALSE,
                   region |-> NULL, id |-> NULL, key |-> NULL, isnull |-> FALSE,
                   pre |-> [handle |-> NoHandle, curl |-> NoCurl, heap |-> EmptyHeap],
                   prev_failed |-> FALSE, prev_ranged |-> FALSE,
                   response |-> <<>>, stale |-> FALSE, getsize |-> NoGetsize,
                   fault |-> "none", clean |-> FALSE]

(***************************************************************************)
(* Callers of the URL parser                                               *)
(***************************************************************************)

\* the strings handed to parse_url are put together from parts, well formed
\* and not: a scheme, what follows it, a host, and an optional port, path and
\* query (NULL: the part and its delimiter are left out)
UrlSchemes == {<<>>, <<"h">>, <<"H", "+">>, <<"1">>}

UrlSeps == {<<":", "/", "/">>, <<":">>, <<":", "/">>, <<":", "x", "y">>, <<>>}

UrlHosts == {<<>>, <<"b">>, <<"[", ":", "]">>, <<"[", "a">>, <<"[", ":", "]", "x">>}

UrlPorts == {NULL, <<>>, <<"8">>, <<"8", "x">>}

UrlPaths == {NULL, <<>>, <<"p">>, <<"/", "p">>}

UrlQueries == {NULL, <<>>, <<"q">>}

UrlPart(delim, part) == IF part = NULL THEN <<>> ELSE <<delim>> \o part

UrlText(scheme, sep, host, port, path, query) ==
    scheme \o sep \o host \o UrlPart(":", port) \o UrlPart("/", path) \o UrlPart("?", query)

UrlInput(scheme, sep, host, port, path, query) ==
    [str |-> UrlText(scheme, sep, host, port, path, query),
     scheme |-> scheme, sep |-> sep, host |-> host, port |-> port, path |-> path,
     query |-> query]

NullUrlInput ==
    [str |-> NULL, scheme |-> NULL, sep |-> NULL, host |-> NULL, port |-> NULL,
     path |-> NULL, query |-> NULL]

UrlCallInputs ==
    {UrlInput(scheme, sep, host, port, path, query) :
        scheme \in UrlSchemes, sep \in UrlSeps, host \in UrlHosts,
        port \in UrlPorts, path \in UrlPaths, query \in UrlQueries}
        \cup {NullUrlInput}

\* what the caller's pointer holds when parse_url is called: nothing, or the
\* parsed url of an earlier call
PriorPurl ==
    [NullPurl EXCEPT !.magic = "PURL", !.scheme = <<"s">>, !.host = <<"o">>, !.path = <<"f">>]

PriorSlots == {NullPurl, PriorPurl}

\* the memory behind the terminator of the string, for a scan that leaves it
PastBytes == {"fault", NUL, "G"}

NoUrlCall(op) ==
    [op |-> op, in |-> NullUrlInput, prior |-> NullPurl, ret |-> "none", purl |-> NullPurl,
     stored |-> FALSE, crashed |-> FALSE, overread |-> FALSE, past |-> NUL]

\* the caller takes what parse_url returned: r.purl is the structure the call
\* left allocated, stored whether *_purl was assigned
ParseUrlReturn(in, prior, past, r) ==
    /\ purl_slot' = IF r.stored THEN r.purl ELSE prior
    /\ url_call' = [op |-> "parse", in |-> in, prior |-> prior, ret |-> r.ret,
                    purl |-> r.purl, stored |-> r.stored, crashed |-> r.crashed,
                    overread |-> ParseUrl(in.str).ret = OOB,
                    past |-> IF ParseUrl(in.str).ret = OOB THEN past ELSE NUL]

ParseUrlCall ==
    /\ url_call.op # "parse"
    /\ \E in \in UrlCallInputs, prior \in PriorSlots, past \in PastBytes :
          ParseUrlReturn(in, prior, past,
                         OpenParseResult(in.str, ParseUrl(in.str),
                                         [NoFault EXCEPT !.past = past]))
    /\ UNCHANGED <<varsHdr, varsS3r, varsAws, varsUtil>>

\* H5FD_s3comms_free_purl(purl), and the caller forgets the pointer
FreePurlCall ==
    /\ url_call.op = "parse"
    /\ ~url_call.crashed
    /\ purl_slot' = NullPurl
    /\ url_call' = NoUrlCall("free")
    /\ UNCHANGED <<varsHdr, varsS3r, varsAws, varsUtil>>

UrlInit ==
    /\ purl_slot = NullPurl
    /\ url_call = NoUrlCall("none")

(***************************************************************************)
(* Callers of the canonical request                                        *)
(***************************************************************************)

CanonVerbs == {<<"G", "E", "T">>, <<"H", "E", "A", "D">>}

CanonResources == {<<>>, <<"/", "p">>}

\* a write to signed_headers_dest[-1] stops the process or lands in a
\* neighbouring byte
CanonUb == {"crash", "stray"}

NoCreqCall ==
    [op |-> "none", given |-> FALSE, request |-> HrbInitRequest(<<>>, <<>>), ret |-> "none",
     creq |-> <<>>, signed_headers |-> <<>>, crashed |-> FALSE, stray |-> FALSE]

\* if (http_request == NULL) ... FAIL, with both destinations as they were
CanonNull == [NoCreqCall EXCEPT !.op = "creq", !.ret = FAIL]

\* the two destinations, empty strings before the call, after it; with an
\* empty header list strlen(signed_headers_dest) - 1 is before the buffer
CanonReturn(request, ub, r) ==
    [op |-> "creq", given |-> TRUE, request |-> request, ret |-> SUCCEED,
     creq |-> IF request.first_header = <<>> /\ ub = "crash" THEN <<>> ELSE r.creq,
     signed_headers |-> IF request.first_header = <<>> /\ ub = "crash"
                        THEN <<>> ELSE r.signed_headers,
     crashed |-> request.first_header = <<>> /\ ub = "crash",
     stray |-> request.first_header = <<>> /\ ub = "stray"]

CanonRequest(verb, resource, list) ==
    [HrbInitRequest(verb, resource) EXCEPT !.first_header = list]

\* aws_canonical_request(dest, signed_headers, request) on a request that
\* carries the header list L
AwsCanonicalRequestCall ==
    /\ ~creq_call.crashed
    /\ \/ creq_call' = CanonNull
       \/ \E verb \in CanonVerbs, resource \in CanonResources, ub \in CanonUb :
             creq_call' = CanonReturn(CanonRequest(verb, resource, L), ub,
                                      AwsCanonicalRequest(CanonRequest(verb, resource, L)))
    /\ UNCHANGED <<varsHdr, varsS3r, varsUrl, varsUtil>>

AwsInit == creq_call = NoCreqCall

(***************************************************************************)
(* URI encoding: percent_encode_char and uriencode, on byte values 0..255  *)
(***************************************************************************)

\* the code of the hexadecimal digit of n as %X prints it: '0'..'9', 'A'..'F'
HexDigitCode(n) == IF n < 10 THEN 48 + n ELSE 55 + n

\* snprintf(repr, 4, "%%%02X", v) for v below 256
PercentHex(v) == <<37, HexDigitCode(v \div 16), HexDigitCode(v % 16)>>

\* the do-while of percent_encode_char: the six-bit slices of k, least first
RECURSIVE SixBitStack(_)
SixBitStack(k) ==
    <<k - ((k \div 64) * 64)>> \o (IF k \div 64 > 0 THEN SixBitStack(k \div 64) ELSE <<>>)

\* 110xxxxx, 1110xxxx or 11110xxx over the topmost slice
LeadingByte(stack) ==
    192 + (IF Len(stack) > 2 THEN 32 ELSE 0) + (IF Len(stack) > 3 THEN 16 ELSE 0)
        + stack[Len(stack)]

\* the continuation bytes 10xxxxxx over the slices below the topmost, i of them done
RECURSIVE ContinuationBytes(_, _)
ContinuationBytes(stack, i) ==
    IF i >= Len(stack) - 1 THEN <<>>
    ELSE PercentHex(128 + stack[Len(stack) - 1 - i]) \o ContinuationBytes(stack, i + 1)

PercentEncodeMulti(stack) == PercentHex(LeadingByte(stack)) \o ContinuationBytes(stack, 0)

\* H5FD_s3comms_percent_encode_char(repr, c, &repr_len): the bytes of repr
PercentEncodeChar(c) ==
    IF c <= 127 THEN PercentHex(c) ELSE PercentEncodeMulti(SixBitStack(c))

\* isalnum() in the "C" locale on a value an unsigned char can hold
IsAlnum(c) == (c >= 48 /\ c <= 57) \/ (c >= 65 /\ c <= 90) \/ (c >= 97 /\ c <= 122)

\* EOF, which the <ctype.h> functions accept besides the unsigned char values
EofByte == 255

\* isalnum(c) on the plain char c that holds byte b: where char is signed a
\* byte above 0x7F is a negative argument, which is outside the domain of
\* isalnum unless it equals EOF (-1, byte 0xFF); ub is what the call then does:
\* "encode" it answers 0, "raw" it answers non-zero, "crash" it stops the process
UriIsAlnum(b, ub) ==
    IF b <= 127 THEN IsAlnum(b)
    ELSE IF b = EofByte THEN FALSE
    ELSE ub = "raw"

UriCopiesRaw(b, encode_slash, ub) ==
    \/ UriIsAlnum(b, ub)
    \/ b \in {46, 45, 95, 126}
    \/ (b = 47 /\ ~encode_slash)

UriResult(ret, dest, crash) ==
    [ret |-> ret, dest |-> dest, n_written |-> Len(dest), crashed |-> crash]

\* the else branch of the loop of uriencode: the bytes appended for s[s_off]
UriEncoded(b) == PercentEncodeChar(b)

\* the loop of uriencode from s[s_off] on (s_off counted from 1), dest so far
RECURSIVE UriLoop(_, _, _, _, _)
UriLoop(s, s_off, encode_slash, ub, dest) ==
    IF s_off > Len(s) THEN UriResult(SUCCEED, dest, FALSE)
    ELSE IF s[s_off] > 127 /\ s[s_off] # EofByte /\ ub = "crash"
    THEN UriResult("none", dest, TRUE)
    ELSE IF UriCopiesRaw(s[s_off], encode_slash, ub)
    THEN UriLoop(s, s_off + 1, encode_slash, ub, Append(dest, s[s_off]))
    ELSE UriLoop(s, s_off + 1, encode_slash, ub, dest \o UriEncoded(s[s_off]))

\* H5FD_s3comms_uriencode(dest, s, s_len, encode_slash, &n_written), s and dest non-null
Uriencode(s, encode_slash, ub) == UriLoop(s, 1, encode_slash, ub, <<>>)

(***************************************************************************)
(* The tuple parser: parse_tuple, as its unit test and the grammar give it *)
(***************************************************************************)

TupleFail == [ret |-> FAIL, nelems |-> 0, elems |-> NULL]

\* the index of the last ')' of str behind its first character, 0 when none
RECURSIVE LastParen(_, _)
LastParen(str, i) ==
    IF i <= 1 THEN 0 ELSE IF str[i] = ")" THEN i ELSE LastParen(str, i - 1)

\* the elements of body from index i on: cur is the element being copied,
\* elems those closed so far; a backslash before sep or before a backslash
\* is dropped and the character behind it copied
RECURSIVE TupleScan(_, _, _, _, _)
TupleScan(body, sep, i, cur, elems) ==
    IF i > Len(body) THEN Append(elems, cur)
    ELSE IF body[i] = "\\" /\ i < Len(body) /\ body[i + 1] \in {sep, "\\"}
    THEN TupleScan(body, sep, i + 2, Append(cur, body[i + 1]), elems)
    ELSE IF body[i] = sep
    THEN TupleScan(body, sep, i + 1, <<>>, Append(elems, cur))
    ELSE TupleScan(body, sep, i + 1, Append(cur, body[i]), elems)

\* the index of the first ')' of str from index i on, 0 when none
RECURSIVE FirstParen(_, _)
FirstParen(str, i) ==
    IF i > Len(str) THEN 0 ELSE IF str[i] = ")" THEN i ELSE FirstParen(str, i + 1)

TupleElemsToFirstClose(str, sep) == TupleScan(SubSeq(str, 2, FirstParen(str, 2) - 1), sep, 1, <<>>, <<>>)

TupleElems(str, sep) == TupleScan(SubSeq(str, 2, LastParen(str, Len(str)) - 1), sep, 1, <<>>, <<>>)

\* parse_tuple(start, sep, &cpy, &nelems, &ptrs)
ParseTuple(str, sep) ==
    IF str = <<>> \/ str[1] # "(" \/ LastParen(str, Len(str)) = 0 THEN TupleFail
    ELSE [ret |-> SUCCEED, nelems |-> Len(TupleElems(str, sep)), elems |-> TupleElems(str, sep)]

\* the cases of the unit test: input, separator and what is expected
TupleCases ==
    <<
    [in_str |-> <<"w", "o", "r", "d", "s", "(", "b", "e", "f", "o", "r", "e", ")">>,
     sep |-> ";", exp_ret |-> FAIL, exp_nelems |-> 0,
     exp_elems |-> NULL],
    [in_str |-> <<"(", "n", "o", "t", " ", "o", "k">>,
     sep |-> ",", exp_ret |-> FAIL, exp_nelems |-> 0,
     exp_elems |-> NULL],
    [in_str |-> <<"(", ")">>,
     sep |-> "-", exp_ret |-> SUCCEED, exp_nelems |-> 1,
     exp_elems |-> <<<<>>>>],
    [in_str |-> <<"(", "s", "t", "u", "f", "f", " ", "k", "e", "e", "p", "s", " ", "o", "n", " ", "g", "o", "i", "n", "g", ")">>,
     sep |-> ",", exp_ret |-> SUCCEED, exp_nelems |-> 1,
     exp_elems |-> <<<<"s", "t", "u", "f", "f", " ", "k", "e", "e", "p", "s", " ", "o", "n", " ", "g", "o", "i", "n", "g">>>>],
    [in_str |-> <<"(", "e", "l", "e", "m", "0", ",", "e", "l", "e", "m", "1", ",", "e", "l", "\\", ",", "e", "m", "2", ",", "e", "l", "e", "m", "3", ")">>,
     sep |-> ",", exp_ret |-> SUCCEED, exp_nelems |-> 4,
     exp_elems |-> <<<<"e", "l", "e", "m", "0">>, <<"e", "l", "e", "m", "1">>, <<"e", "l", ",", "e", "m", "2">>, <<"e", "l", "e", "m", "3">>>>],
    [in_str |-> <<"(", "e", "l", "e", "m", "0", ",", "e", "l", "e", "m", "1", ",", "e", "l", "\\", "\\", ",", "e", "m", "2", ",", "e", "l", "e", "m", "3", ")">>,
     sep |-> ",", exp_ret |-> SUCCEED, exp_nelems |-> 5,
     exp_elems |-> <<<<"e", "l", "e", "m", "0">>, <<"e", "l", "e", "m", "1">>, <<"e", "l", "\\">>, <<"e", "m", "2">>, <<"e", "l", "e", "m", "3">>>>],
    [in_str |-> <<"(", "5", "-", "2", "-", "7", "-", "2", "\\", "-", "6", "-", "2", ")">>,
     sep |-> "-", exp_ret |-> SUCCEED, exp_nelems |-> 5,
     exp_elems |-> <<<<"5">>, <<"2">>, <<"7">>, <<"2", "-", "6">>, <<"2">>>>],
    [in_str |-> <<"(", "b", "e", ";", "f", "o", ")", "r", "e", ")">>,
     sep |-> ";", exp_ret |-> SUCCEED, exp_nelems |-> 2,
     exp_elems |-> <<<<"b", "e">>, <<"f", "o", ")", "r", "e">>>>],
    [in_str |-> <<"(", "b", "e", ";", "f", "o", "\\", "r", "e", ")">>,
     sep |-> ";", exp_ret |-> SUCCEED, exp_nelems |-> 2,
     exp_elems |-> <<<<"b", "e">>, <<"f", "o", "\\", "r", "e">>>>],
    [in_str |-> <<"(", "b", "e", ";", "f", "o", "r", "e", ")", ")">>,
     sep |-> ";", exp_ret |-> SUCCEED, exp_nelems |-> 2,
     exp_elems |-> <<<<"b", "e">>, <<"f", "o", "r", "e", ")">>>>],
    [in_str |-> <<"(", ";", "a", "1", ";", ";", "a", "4", ";", ")">>,
     sep |-> ";", exp_ret |-> SUCCEED, exp_nelems |-> 5,
     exp_elems |-> <<<<>>, <<"a", "1">>, <<>>, <<"a", "4">>, <<>>>>],
    [in_str |-> <<"(", "(", "4", ",", "e", ",", "a", ")", ";", "(", "6", ",", "2", ",", "a", ")", ")">>,
     sep |-> ";", exp_ret |-> SUCCEED, exp_nelems |-> 2,
     exp_elems |-> <<<<"(", "4", ",", "e", ",", "a", ")">>, <<"(", "6", ",", "2", ",", "a", ")">>>>],
    [in_str |-> <<"(", "(", "4", ",", "e", ",", "a", ")", ",", "(", "6", ",", "2", ",", "a", ")", ")">>,
     sep |-> ",", exp_ret |-> SUCCEED, exp_nelems |-> 6,
     exp_elems |-> <<<<"(", "4">>, <<"e">>, <<"a", ")">>, <<"(", "6">>, <<"2">>, <<"a", ")">>>>]
    >>

(***************************************************************************)
(* Callers of the string utilities                                         *)
(***************************************************************************)

MaxTupleLen == 6

TupleAlphabet == {"(", ")", ";", "\\", "a"}

TupleSeps == {";", "a"}

TupleStrings == UNION {[1..k -> TupleAlphabet] : k \in 0..MaxTupleLen}

NoUtilCall == [op |-> "none"]

ParseTupleCall ==
    /\ util_call.op = "none"
    /\ \/ \E str \in TupleStrings, sep \in TupleSeps :
             util_call' = [op |-> "parse_tuple", str |-> str, sep |-> sep, case |-> 0,
                           out |-> ParseTuple(str, sep)]
       \/ \E n \in 1..Len(TupleCases) :
             util_call' = [op |-> "parse_tuple", str |-> TupleCases[n].in_str,
                           sep |-> TupleCases[n].sep, case |-> n,
                           out |-> ParseTuple(TupleCases[n].in_str, TupleCases[n].sep)]
    /\ UNCHANGED <<varsHdr, varsS3r, varsUrl, varsAws>>

MaxUriLen == 2

\* the bytes tried: NUL, space, '$', '%', '+', '-', '.', '/', '0', '9', ':',
\* 'A', 'Z', '_', 'a', 'z', '~', DEL, and bytes above 0x7F
UriBytes ==
    {0, 32, 36, 37, 43, 45, 46, 47, 48, 57, 58, 65, 90, 95, 97, 122, 126, 127,
     128, 162, 191, 192, 233, 255}

UriStrings == UNION {[1..k -> UriBytes] : k \in 0..MaxUriLen}

UriUb == {"encode", "raw", "crash"}

UriencodeCall ==
    /\ util_call.op = "none"
    /\ \E str \in UriStrings, encode_slash \in BOOLEAN, ub \in UriUb :
          util_call' = [op |-> "uriencode", str |-> str, encode_slash |-> encode_slash,
                        out |-> Uriencode(str, encode_slash, ub)]
    /\ UNCHANGED <<varsHdr, varsS3r, varsUrl, varsAws>>

UtilInit == util_call = NoUtilCall

Init == HdrInit /\ S3rInit /\ UrlInit /\ AwsInit /\ UtilInit

Next ==
    \/ S3rOpenCall
    \/ S3rReadCall
    \/ S3rCloseCall

Spec == Init /\ [][Next]_vars

NextHdr == HrbNodeSetCall

SpecHdr == Init /\ [][NextHdr]_vars

NextUrl ==
    \/ ParseUrlCall
    \/ FreePurlCall

SpecUrl == Init /\ [][NextUrl]_vars

NextAws ==
    \/ HrbNodeSetCall
    \/ AwsCanonicalRequestCall

SpecAws == Init /\ [][NextAws]_vars

\* a caller that either builds a header list and has it canonicalised, or
\* works a request handle, whose signed reads build and canonicalise their own
NextSign ==
    \/ s3r_call.op = "none" /\ NextAws
    \/ L = <<>> /\ hrb_call.ret = "none" /\ creq_call.op = "none" /\ Next

SpecSign == Init /\ [][NextSign]_vars

NextUtil ==
    \/ ParseTupleCall
    \/ UriencodeCall

SpecUtil == Init /\ [][NextUtil]_vars

(***************************************************************************)
(* Properties of the header list                                           *)
(***************************************************************************)

\* the call recorded in hrb_call was made (Init records none)
HrbCalled == hrb_call.ret /= "none"

\* the positions of list whose node is keyed by the lowercased name
HrbKnown(list, name) ==
    {k \in 1 .. Len(list) : LowerStr(list[k].name) = LowerStr(name)}

\* list without its node at position k
HrbWithout(list, k) == SubSeq(list, 1, k - 1) \o SubSeq(list, k + 1, Len(list))

\* C1: starting from the empty list, after any sequence of set calls, failed
\* ones included, the list is strictly ascending by lowercased name, so no
\* two nodes share a lowercased name.
C1_StrictlyAscending ==
    /\ \A i \in 1 .. Len(L) - 1 :
          strcmp(LowerStr(L[i].name), LowerStr(L[i + 1].name)) < 0
    /\ \A i, j \in 1 .. Len(L) :
          i /= j => LowerStr(L[i].name) /= LowerStr(L[j].name)

\* a full list holding a name with an upper-case letter, just after a failed call
C1_Witness ==
    /\ Len(L) = MaxNodes
    /\ hrb_call.ret = FAIL
    /\ \E i \in 1 .. Len(L) : L[i].name /= LowerStr(L[i].name)

\* C2: a set call fails and leaves the list exactly as it was when name is
\* absent, when value is absent and the list is empty, and when value is
\* absent and no node has the given lowercased name, wherever that name
\* would sort.
C2_ErrorsLeaveList ==
    HrbCalled =>
        ((\/ hrb_call.name = NULL
          \/ /\ hrb_call.value = NULL
             /\ \/ hrb_call.prev = <<>>
                \/ HrbKnown(hrb_call.prev, hrb_call.name) = {})
         => /\ hrb_call.ret = FAIL
            /\ L = hrb_call.prev)

\* a removal of a name that is absent and would sort between two nodes
C2_Witness ==
    /\ HrbCalled
    /\ hrb_call.name /= NULL
    /\ hrb_call.value = NULL
    /\ HrbKnown(hrb_call.prev, hrb_call.name) = {}
    /\ \E i \in 1 .. Len(hrb_call.prev) - 1 :
          /\ strcmp(LowerStr(hrb_call.prev[i].name), LowerStr(hrb_call.name)) < 0
          /\ strcmp(LowerStr(hrb_call.name), LowerStr(hrb_call.prev[i + 1].name)) < 0
    /\ L = hrb_call.prev

\* C3(insert): the list is the earlier one with one node of the name, the
\* value and their joined form added at position k, its sorted position
HrbInsertedAt(prev, list, k, name, value) ==
    /\ Len(list) = Len(prev) + 1
    /\ list[k] = [name      |-> name,
                  value     |-> value,
                  cat       |-> name \o <<":", " ">> \o value,
                  lowername |-> LowerStr(name)]
    /\ HrbWithout(list, k) = prev
    /\ \A i \in 1 .. k - 1 :
          strcmp(LowerStr(list[i].name), LowerStr(name)) < 0
    /\ \A i \in k + 1 .. Len(list) :
          strcmp(LowerStr(name), LowerStr(list[i].name)) < 0

\* C3(replace): the node at position k has the new name, value and joined
\* form and its old key; nothing else changed
HrbReplacedAt(prev, list, k, name, value) ==
    /\ Len(list) = Len(prev)
    /\ list[k] = [name      |-> name,
                  value     |-> value,
                  cat       |-> name \o <<":", " ">> \o value,
                  lowername |-> prev[k].lowername]
    /\ \A i \in 1 .. Len(prev) : i /= k => list[i] = prev[i]

\* C3: the list is an ordered map keyed by lowercased name: a value with an
\* unknown key adds exactly one node at its sorted position; a value with a
\* known key keeps the count and the position and replaces the stored name,
\* value and joined form (name + ": " + value), the key unchanged; no value
\* with a known key removes exactly that node and keeps the order of the
\* others, so that removing the only node leaves the empty list.
C3_OrderedMap ==
    (HrbCalled /\ hrb_call.name /= NULL) =>
        LET prev  == hrb_call.prev
            name  == hrb_call.name
            value == hrb_call.value
            known == HrbKnown(prev, name)
        IN  /\ (value /= NULL /\ known = {}) =>
                  /\ hrb_call.ret = SUCCEED
                  /\ \E k \in 1 .. Len(L) : HrbInsertedAt(prev, L, k, name, value)
            /\ (value /= NULL /\ known /= {}) =>
                  /\ hrb_call.ret = SUCCEED
                  /\ \A k \in known : HrbReplacedAt(prev, L, k, name, value)
            /\ (value = NULL /\ known /= {}) =>
                  /\ hrb_call.ret = SUCCEED
                  /\ \A k \in known : L = HrbWithout(prev, k)
                  /\ Len(prev) = 1 => L = <<>>

\* a node in the middle of a full list was replaced under a name of another
\* case and with another value
C3_Witness ==
    /\ HrbCalled
    /\ hrb_call.name /= NULL
    /\ hrb_call.value /= NULL
    /\ Len(hrb_call.prev) = MaxNodes
    /\ \E k \in 2 .. Len(hrb_call.prev) - 1 :
          /\ k \in HrbKnown(hrb_call.prev, hrb_call.name)
          /\ hrb_call.prev[k].name /= hrb_call.name
          /\ hrb_call.prev[k].value /= hrb_call.value
          /\ L[k].cat = hrb_call.name \o <<":", " ">> \o hrb_call.value

(***************************************************************************)
(* Properties of the request handle                                        *)
(***************************************************************************)

\* the last call was a read that returned
ReadReturned == s3r_call.op = "read" /\ ~crashed

\* the last call was an open that returned
OpenReturned == s3r_call.op = "open" /\ ~crashed

\* C4: for every handle and every offset and len with offset > filesize or
\* offset + len > filesize, read fails and issues no HTTP request.
C4_PastEndFailsUnsent ==
    (/\ ReadReturned
     /\ \/ s3r_call.offset > handle.filesize
        \/ s3r_call.offset + s3r_call.len > handle.filesize)
    => (s3r_call.ret = FAIL /\ ~wire.sent)

\* a read past the end whose sum does not wrap: refused and nothing sent
C4_Witness ==
    /\ ReadReturned
    /\ s3r_call.offset <= handle.filesize
    /\ s3r_call.offset + s3r_call.len > handle.filesize
    /\ s3r_call.offset + s3r_call.len <= ULONG_MAX
    /\ s3r_call.ret = FAIL
    /\ ~wire.sent

\* C5: a successful read with len > 0 and offset + len <= filesize, from a
\* server that honours byte ranges, delivers into the destination exactly the
\* len bytes of the window [offset, offset + len) of the object.
C5_DeliversWindow ==
    (/\ ReadReturned
     /\ s3r_call.ret = SUCCEED
     /\ s3r_call.dest
     /\ s3r_call.len > 0
     /\ s3r_call.offset + s3r_call.len <= handle.filesize
     /\ handle.filesize = objsize)
    => /\ sink.data = [i \in 1 .. s3r_call.len |-> s3r_call.offset + i - 1]
       /\ ~sink.stray

\* a successful read of a window that ends at the end of the object
C5_Witness ==
    /\ ReadReturned
    /\ s3r_call.ret = SUCCEED
    /\ s3r_call.dest
    /\ s3r_call.len > 0
    /\ s3r_call.offset + s3r_call.len = handle.filesize
    /\ handle.filesize = objsize
    /\ sink.data = [i \in 1 .. s3r_call.len |-> s3r_call.offset + i - 1]

\* the blocks a returned handle owns: one of each, and a copy of each
\* credential it holds
HeapOfHandle(h) ==
    [k \in HeapKinds |->
        CASE k = "region"      -> IF h.region = NULL THEN 0 ELSE 1
          [] k = "secret_id"   -> IF h.secret_id = NULL THEN 0 ELSE 1
          [] k = "signing_key" -> IF h.signing_key = NULL THEN 0 ELSE 1
          [] OTHER             -> 1]

SuppliedCount(region, id, key) ==
    (IF region # NULL /\ region # <<>> THEN 1 ELSE 0)
        + (IF id # NULL /\ id # <<>> THEN 1 ELSE 0)
        + (IF key # NULL THEN 1 ELSE 0)

HeldCount(h) ==
    (IF h.region # NULL THEN 1 ELSE 0)
        + (IF h.secret_id # NULL THEN 1 ELSE 0)
        + (IF h.signing_key # NULL THEN 1 ELSE 0)

\* C7: every handle returned by open holds all three of region, access-key id
\* and signing key or none of them, from open until close; an open call that
\* supplies some but not all of the three fails.
C7_CredentialsAllOrNone ==
    /\ handle.magic = "S3R" => HeldCount(handle) \in {0, 3}
    /\ (OpenReturned /\ SuppliedCount(s3r_call.region, s3r_call.id, s3r_call.key) \in {1, 2})
           => s3r_call.ret = "null"

\* an open with a region and an id and no key: refused
C7_Witness ==
    /\ OpenReturned
    /\ s3r_call.region = <<"r">>
    /\ s3r_call.id = <<"i">>
    /\ s3r_call.key = NULL
    /\ s3r_call.ret = "null"
    /\ handle = NoHandle

\* the last call was a close on a null handle
NullClosed == s3r_call.op = "close" /\ s3r_call.isnull

\* close on a null handle changed nothing
NullCloseNoEffect ==
    /\ handle = s3r_call.pre.handle
    /\ curl = s3r_call.pre.curl
    /\ heap = s3r_call.pre.heap

\* C8 as stated: close on a null handle has no effect and does not report an
\* error, however many times it is called.
C8_NullCloseSilent == NullClosed => (NullCloseNoEffect /\ s3r_call.ret = SUCCEED)

\* C8: close on a null handle has no effect on any state and reports failure
\* (FAIL), every time it is called.
C8_NullCloseFails == NullClosed => (NullCloseNoEffect /\ s3r_call.ret = FAIL)

\* a close on a null handle right after another one, with no handle open
C8_Witness ==
    /\ NullClosed
    /\ s3r_call.prev_failed
    /\ s3r_call.pre.handle = NoHandle
    /\ s3r_call.ret = FAIL
    /\ NullCloseNoEffect

\* the number of header lines of the request of a read on h: none when
\* anonymous; Host, x-amz-content-sha256, x-amz-date and Authorization when
\* signed, and Range when there is a range
ExpectedHeaderCount(h, ranged) ==
    IF h.signing_key = NULL THEN 0 ELSE IF ranged THEN 5 ELSE 4

FreshRequest ==
    S3rRead(handle, CurlOpened(curl.url), objsize, <<>>, s3r_call.offset, s3r_call.len,
            s3r_call.dest, "none", CHOOSE now \in NowValues : TRUE, "crash").wire

LineAfterMarker(rest) ==
    IF strstr(rest, CRLF) = 0 THEN NULL ELSE SubSeq(rest, 1, strstr(rest, CRLF) - 1)

ContentLengthLine(resp) ==
    IF strstr(resp, ContentLengthMarker) = 0 THEN NULL
    ELSE LineAfterMarker(SubSeq(resp,
                                strstr(resp, ContentLengthMarker) + Len(ContentLengthMarker),
                                Len(resp)))

\* the number a Content-Length line states: its decimal digits (RFC 7230)
ContentLengthValue(line) == DigitsValue(line, 0)

\* C11: after a successful open the filesize of the handle equals the numeric
\* value of the Content-Length line of the HEAD response; open fails when the
\* response has no "\r\nContent-Length: " line, when that line has no ending
\* CRLF, or when the value parses to 0 or to the maximum unsigned value, so
\* every opened handle has filesize >= 1.
C11_FilesizeIsContentLength ==
    OpenReturned =>
        /\ s3r_call.ret = "handle" =>
              /\ ContentLengthLine(s3r_call.response) # NULL
              /\ handle.filesize = ContentLengthValue(ContentLengthLine(s3r_call.response))
              /\ handle.filesize >= 1
        /\ (\/ ContentLengthLine(s3r_call.response) = NULL
            \/ ContentLengthValue(ContentLengthLine(s3r_call.response)) = 0
            \/ ContentLengthValue(ContentLengthLine(s3r_call.response)) >= ULONG_MAX)
           => s3r_call.ret = "null"

\* an open that succeeded on a well-formed response over a clean stack
C11_Witness ==
    /\ OpenReturned
    /\ s3r_call.ret = "handle"
    /\ ~s3r_call.stale
    /\ ContentLengthLine(s3r_call.response) = Dec(objsize)
    /\ handle.filesize = objsize

\* C12: a read whose destination is absent performs the HTTP request and
\* captures no body bytes into any buffer, in every handle state: the call
\* returns, a call that succeeds has sent its request, and nothing was written
\* to the caller's memory or to memory outside it.
C12_NoDestinationNoCapture ==
    (s3r_call.op = "read" /\ ~s3r_call.dest) =>
        /\ ~crashed
        /\ s3r_call.ret = SUCCEED => wire.sent
        /\ sink = EmptySink

\* a read without destination whose request went out and brought no body
C12_Witness ==
    /\ ReadReturned
    /\ ~s3r_call.dest
    /\ wire.sent
    /\ s3r_call.ret = FAIL
    /\ sink = EmptySink

(***************************************************************************)
(* The URL parser                                                          *)
(***************************************************************************)

UrlParsed == url_call.op = "parse"

UrlAccepted == UrlParsed /\ url_call.ret = SUCCEED /\ ~url_call.crashed

\* the parts of an input follow the grammar
\* SCHEME "://" HOST [":" PORT] ["/" [PATH]] ["?" QUERY]
GoodSchemePart(in) ==
    in.scheme # <<>> /\ \A i \in 1..Len(in.scheme) : SchemeCharOk(in.scheme[i])

GoodHostPart(in) ==
    in.host # <<>> /\ (in.host[1] = "[" => in.host[Len(in.host)] = "]")

GoodPortPart(in) == in.port = NULL \/ (in.port # <<>> /\ AllDigits(in.port))

GoodQueryPart(in) == in.query = NULL \/ in.query # <<>>

UrlConforms(in) ==
    /\ in.str # NULL
    /\ GoodSchemePart(in)
    /\ in.sep = <<":", "/", "/">>
    /\ GoodHostPart(in)
    /\ GoodPortPart(in)
    /\ GoodQueryPart(in)

Reassemble(p) ==
    p.scheme \o <<":", "/", "/">> \o p.host \o UrlPart(":", p.port)
        \o UrlPart("/", p.path) \o UrlPart("?", p.query)

\* the input with its scheme in lower case and a lone "/" left out
UrlNormalForm(in) ==
    UrlText(LowerStr(in.scheme), in.sep, in.host, in.port,
            IF in.path = <<>> THEN NULL ELSE in.path, in.query)

\* C13: for every URL that conforms to the grammar
\* SCHEME "://" HOST [":" PORT] ["/" [PATH]] ["?" QUERY], parse succeeds and
\* scheme + "://" + host + [":" + port] + ["/" + path] + ["?" + query] put
\* together from the parsed fields is the input, up to the case of the scheme
\* and a lone "/" with an empty path.
C13_RoundTrip ==
    (UrlParsed /\ UrlConforms(url_call.in)) =>
        /\ url_call.ret = SUCCEED
        /\ ~url_call.crashed
        /\ ~url_call.overread
        /\ url_call.stored
        /\ purl_slot.magic = "PURL"
        /\ Reassemble(purl_slot) = UrlNormalForm(url_call.in)

\* a conforming URL with every part, an upper-case scheme and a bracketed host
C13_Witness ==
    /\ UrlAccepted
    /\ UrlConforms(url_call.in)
    /\ url_call.in.scheme = <<"H", "+">>
    /\ url_call.in.host = <<"[", ":", "]">>
    /\ url_call.in.port = <<"8">>
    /\ url_call.in.path = <<"/", "p">>
    /\ url_call.in.query = <<"q">>
    /\ Reassemble(purl_slot) = <<"h", "+">> \o SubSeq(url_call.in.str, 3, Len(url_call.in.str))

\* the first ':' of str is the first of the three characters "://"
SchemeThenSep(str) ==
    /\ CharAt(str, ScanTo(str, 0, {":"})) = ":"
    /\ CharAt(str, ScanTo(str, 0, {":"}) + 1) = "/"
    /\ CharAt(str, ScanTo(str, 0, {":"}) + 2) = "/"

\* C14: parse returns an error for every input in which the scheme is not
\* followed by the three characters "://" (a ':' followed by anything else, or
\* by fewer than two further characters, or no ':' at all).
C14_MissingSeparatorFails ==
    (UrlParsed /\ url_call.in.str # NULL /\ ~SchemeThenSep(url_call.in.str)) =>
        url_call.ret = FAIL /\ ~url_call.crashed

\* an input without "://" that parse refuses
C14_Witness ==
    /\ UrlParsed
    /\ url_call.in.str = <<"h", ":", "x", "y">>
    /\ url_call.ret = FAIL
    /\ ~url_call.crashed

\* the text of str before its first ':' (all of it when there is none) holds a
\* character that a scheme may not hold
BadSchemeText(str) ==
    \E i \in 1..ScanTo(str, 0, {":"}) : ~SchemeCharOk(str[i])

\* the inputs C15 lists; for a fault in the host, port or query the parts
\* before it are in order, so that the parse gets to it
UrlEmptyInput(in) == in.str = <<>>

UrlBadScheme(in) == in.str # NULL /\ BadSchemeText(in.str)

UrlEmptyHost(in) == in.str # NULL /\ in.sep = <<":", "/", "/">> /\ in.host = <<>>

UrlBadPort(in) ==
    /\ in.str # NULL
    /\ in.sep = <<":", "/", "/">>
    /\ GoodHostPart(in)
    /\ in.port # NULL
    /\ in.port # <<>>
    /\ ~AllDigits(in.port)

UrlEmptyPort(in) ==
    in.str # NULL /\ in.sep = <<":", "/", "/">> /\ GoodHostPart(in) /\ in.port = <<>>

UrlEmptyQuery(in) ==
    /\ in.str # NULL
    /\ in.sep = <<":", "/", "/">>
    /\ GoodHostPart(in)
    /\ GoodPortPart(in)
    /\ in.query = <<>>

\* C15: parse fails, produces no parsed URL and leaves the caller's output slot
\* unaltered, for each of: empty input; a scheme containing a character outside
\* [A-Za-z+.-]; an empty host; a port containing a non-digit; an empty port
\* after ':'; an empty query after '?'.
C15_ErrorsLeaveSlot ==
    (/\ UrlParsed
     /\ \/ UrlEmptyInput(url_call.in)
        \/ UrlBadScheme(url_call.in)
        \/ UrlEmptyHost(url_call.in)
        \/ UrlBadPort(url_call.in)
        \/ UrlEmptyPort(url_call.in)
        \/ UrlEmptyQuery(url_call.in)) =>
        /\ url_call.ret = FAIL
        /\ ~url_call.crashed
        /\ ~url_call.overread
        /\ url_call.purl = NullPurl
        /\ ~url_call.stored
        /\ purl_slot = url_call.prior

\* a port with a non-digit, refused while the caller's pointer held an earlier
\* parsed url
C15_Witness ==
    /\ UrlParsed
    /\ UrlBadPort(url_call.in)
    /\ GoodSchemePart(url_call.in)
    /\ url_call.prior = PriorPurl
    /\ url_call.ret = FAIL
    /\ purl_slot = PriorPurl

\* C16: on every successful parse, scheme and host are populated (scheme is a
\* non-empty lowercase string over [a-z+.-], host is non-empty), and each of
\* port, path and query is either absent or a non-empty string; no component
\* is ever stored as an empty string.
C16_ComponentsPopulated ==
    UrlAccepted =>
        /\ purl_slot.scheme # NULL
        /\ purl_slot.scheme # <<>>
        /\ \A i \in 1..Len(purl_slot.scheme) :
              SchemeCharOk(purl_slot.scheme[i]) /\ ~IsUpper(purl_slot.scheme[i])
        /\ purl_slot.host # NULL
        /\ purl_slot.host # <<>>
        /\ purl_slot.port # <<>>
        /\ purl_slot.path # <<>>
        /\ purl_slot.query # <<>>

\* a successful parse of a URL whose path is a lone "/": path is absent
C16_Witness ==
    /\ UrlAccepted
    /\ UrlConforms(url_call.in)
    /\ url_call.in.path = <<>>
    /\ purl_slot.path = NULL
    /\ purl_slot.scheme = <<"h", "+">>
    /\ purl_slot.host # <<>>

\* the text between the '/' at index slash and the '?' or the end of str that
\* follows, NULL when there is no '/' at slash or nothing behind it
PathText(str, slash) ==
    IF CharAt(str, slash) = "/" /\ ScanTo(str, slash + 1, {"?"}) > slash + 1
    THEN Substr(str, slash + 1, ScanTo(str, slash + 1, {"?"}))
    ELSE NULL

\* where the host of str ends: behind the ']' of a bracketed host, else at the
\* first ':', '/' or '?' from index c on
HostEnd(str, c) ==
    IF CharAt(str, c) = "[" THEN ScanTo(str, c, {"]"}) + 1 ELSE ScanTo(str, c, {":", "/", "?"})

\* where host and port end: a ':' directly behind the host opens the port
PortEnd(str, e) == IF CharAt(str, e) = ":" THEN ScanTo(str, e + 1, {"/", "?"}) ELSE e

\* the path text behind the '/' that directly follows host and port
UrlPathText(str) == PathText(str, PortEnd(str, HostEnd(str, ScanTo(str, 0, {":"}) + 3)))

\* C17, as the code has it: for every input that parse accepts, the parser
\* consumes the one '/' that directly follows host and port, and the stored
\* path is the text behind that '/' up to '?' or the end, absent when there is
\* no such '/' or that text is empty; the stored path begins with '/' when the
\* input has a second '/' there.
C17_PathAfterOneSlash ==
    (UrlAccepted /\ ~url_call.overread) =>
        purl_slot.path = UrlPathText(url_call.in.str)

\* an accepted URL whose stored path begins with '/'
C17_Witness ==
    /\ UrlAccepted
    /\ UrlConforms(url_call.in)
    /\ url_call.in.path = <<"/", "p">>
    /\ purl_slot.path = <<"/", "p">>

\* C17 as stated: for every input that parse accepts, the stored path never
\* begins with '/'.
C17_PathNeverStartsWithSlash ==
    (UrlAccepted /\ ~url_call.overread) =>
        (purl_slot.path = NULL \/ purl_slot.path[1] # "/")

\* the host of the input opens with '[' and no ']' follows
UrlOpenBracket(in) ==
    /\ in.str # NULL
    /\ in.sep = <<":", "/", "/">>
    /\ in.host # <<>>
    /\ in.host[1] = "["
    /\ \A i \in 1..Len(in.str) : in.str[i] # "]"

\* C18: for every input whose host starts with '[' and that has no ']' before
\* the end of the string, parse fails with an error, and the host scan never
\* reads past the end of the input.
C18_OpenBracketFails ==
    (UrlParsed /\ UrlOpenBracket(url_call.in)) =>
        /\ url_call.ret = FAIL
        /\ ~url_call.crashed
        /\ ~url_call.overread

\* the scan for ']' has left the string and the call came back with an error
C18_Witness ==
    /\ UrlParsed
    /\ UrlOpenBracket(url_call.in)
    /\ url_call.overread
    /\ url_call.ret = FAIL
    /\ ~url_call.crashed

(***************************************************************************)
(* The canonical request                                                   *)
(***************************************************************************)

\* aws_canonical_request was given a request and came back
CreqCalled == creq_call.op = "creq" /\ creq_call.given /\ ~creq_call.crashed

IsSpace(c) == c \in {" ", "\t", "\r", "\n"}

\* s without its leading and trailing whitespace
RECURSIVE TrimLeft(_)
TrimLeft(s) == IF s # <<>> /\ IsSpace(Head(s)) THEN TrimLeft(Tail(s)) ELSE s

RECURSIVE TrimRight(_)
TrimRight(s) ==
    IF s # <<>> /\ IsSpace(s[Len(s)]) THEN TrimRight(SubSeq(s, 1, Len(s) - 1)) ELSE s

TrimValue(s) == TrimRight(TrimLeft(s))

\* lowercase(name) ":" trim(value) "\n" for every header, in list order
RECURSIVE TrimmedHeaderLines(_)
TrimmedHeaderLines(list) ==
    IF list = <<>> THEN <<>>
    ELSE LowerStr(Head(list).name) \o <<":">> \o TrimValue(Head(list).value) \o <<"\n">>
             \o TrimmedHeaderLines(Tail(list))

\* the canonical request up to the empty line that ends the header lines
TrimmedCreqHead(request) ==
    request.verb \o <<"\n">> \o request.resource \o <<"\n", "\n">>
        \o TrimmedHeaderLines(request.first_header) \o <<"\n">>

\* C19: in the canonical request, every header line is
\* lowercase(name) + ":" + trim(value): leading and trailing whitespace of the
\* header value is removed, for every header of the request.
C19_HeaderLinesTrimmed ==
    (CreqCalled /\ creq_call.request.first_header # <<>>) =>
        /\ Len(creq_call.creq) >= Len(TrimmedCreqHead(creq_call.request))
        /\ SubSeq(creq_call.creq, 1, Len(TrimmedCreqHead(creq_call.request)))
              = TrimmedCreqHead(creq_call.request)

\* a request of two headers, one with an upper-case name, whose values have no
\* whitespace to remove
C19_Witness ==
    /\ CreqCalled
    /\ Len(creq_call.request.first_header) = 2
    /\ creq_call.request.first_header[1].name = <<"A">>
    /\ \A i \in 1..2 : creq_call.request.first_header[i].value = <<"v">>
    /\ SubSeq(creq_call.creq, 1, Len(TrimmedCreqHead(creq_call.request)))
          = TrimmedCreqHead(creq_call.request)

CountNewlines(s) == Cardinality({i \in 1..Len(s) : s[i] = "\n"})

HexChars == {"0", "1", "2", "3", "4", "5", "6", "7", "8", "9", "a", "b", "c", "d", "e", "f"}

\* the last line of s is the 64 hex characters of EMPTY_SHA256
EndsWithEmptySha(s) ==
    /\ Len(EMPTY_SHA256) = 64
    /\ \A i \in 1..64 : EMPTY_SHA256[i] \in HexChars
    /\ Len(s) >= 65
    /\ s[Len(s) - 64] = "\n"
    /\ SubSeq(s, Len(s) - 63, Len(s)) = EMPTY_SHA256

\* C20, as the code has it: the canonical request of a request with n >= 1
\* headers contains exactly n + 5 "\n" (six for a single header), and its
\* final line is the 64 hex characters of the empty-payload SHA-256 constant.
C20_NewlinesPerHeader ==
    (CreqCalled /\ creq_call.request.first_header # <<>>) =>
        /\ CountNewlines(creq_call.creq) = Len(creq_call.request.first_header) + 5
        /\ EndsWithEmptySha(creq_call.creq)

\* a request of three headers: eight "\n"
C20_Witness ==
    /\ CreqCalled
    /\ Len(creq_call.request.first_header) = 3
    /\ CountNewlines(creq_call.creq) = 8
    /\ EndsWithEmptySha(creq_call.creq)

\* C20 as stated: every canonical request contains exactly six "\n" and ends
\* in the empty-payload constant, for every request and every header list.
C20_SixNewlines ==
    (CreqCalled /\ creq_call.request.first_header # <<>>) =>
        /\ CountNewlines(creq_call.creq) = 6
        /\ EndsWithEmptySha(creq_call.creq)

(***************************************************************************)
(* Signed headers                                                          *)
(***************************************************************************)

\* the first index at which sub occurs in s, 0 when it does not
OccursAt(s, sub) == {i \in 1..(Len(s) - Len(sub) + 1) : SubSeq(s, i, i + Len(sub) - 1) = sub}

FirstIndexOf(s, sub) ==
    IF OccursAt(s, sub) = {} THEN 0
    ELSE CHOOSE i \in OccursAt(s, sub) : \A j \in OccursAt(s, sub) : i <= j

\* the lowercased names of the nodes of list, in list order, joined by ';'
RECURSIVE JoinedNames(_)
JoinedNames(list) ==
    IF list = <<>> THEN <<>>
    ELSE IF Len(list) = 1 THEN LowerStr(list[1].name)
    ELSE LowerStr(list[1].name) \o <<";">> \o JoinedNames(Tail(list))

\* where the canonical header line of node i starts in the canonical request
CreqLineAt(i) ==
    FirstIndexOf(creq_call.creq,
           <<"\n">> \o LowerStr(creq_call.request.first_header[i].name) \o <<":">>)

AuthorizationPrefix ==
    <<"A", "u", "t", "h", "o", "r", "i", "z", "a", "t", "i", "o", "n", ":", " ">>

SignedHeadersKey ==
    <<"S", "i", "g", "n", "e", "d", "H", "e", "a", "d", "e", "r", "s", "=">>

SignatureKey == <<",", "S", "i", "g", "n", "a", "t", "u", "r", "e", "=">>

\* the request on the wire carries an Authorization header
SignedRequestSent == wire.sent /\ HeaderValue(wire.headers, AuthorizationPrefix) # NULL

\* the SignedHeaders field of an Authorization header value
SignedHeadersField(auth) ==
    SubSeq(auth, FirstIndexOf(auth, SignedHeadersKey) + Len(SignedHeadersKey),
           FirstIndexOf(auth, SignatureKey) - 1)

SignedHeadersSent == SignedHeadersField(HeaderValue(wire.headers, AuthorizationPrefix))

\* the lowercased names of the header lines "Name: value" of a request, but
\* for authorization, joined by ';'
RECURSIVE SentNames(_)
SentNames(headers) ==
    IF headers = <<>> THEN <<>>
    ELSE IF /\ Len(Head(headers)) >= Len(AuthorizationPrefix)
            /\ LowerStr(SubSeq(Head(headers), 1, Len(AuthorizationPrefix)))
                  = LowerStr(AuthorizationPrefix)
    THEN SentNames(Tail(headers))
    ELSE LowerStr(SubSeq(Head(headers), 1, FirstIndexOf(Head(headers), <<":", " ">>) - 1))
             \o (IF SentNames(Tail(headers)) = <<>> THEN <<>> ELSE <<";">>)
             \o SentNames(Tail(headers))

SignedUnranged ==
    <<"h", "o", "s", "t", ";">>
        \o <<"x", "-", "a", "m", "z", "-", "c", "o", "n", "t", "e", "n", "t", "-", "s", "h", "a", "2", "5", "6", ";">>
        \o <<"x", "-", "a", "m", "z", "-", "d", "a", "t", "e">>

SignedRanged ==
    <<"h", "o", "s", "t", ";", "r", "a", "n", "g", "e", ";">>
        \o <<"x", "-", "a", "m", "z", "-", "c", "o", "n", "t", "e", "n", "t", "-", "s", "h", "a", "2", "5", "6", ";">>
        \o <<"x", "-", "a", "m", "z", "-", "d", "a", "t", "e">>

\* the last read asked for a range
ReadRanged == s3r_call.op = "read" /\ (s3r_call.offset # 0 \/ s3r_call.len # 0)

\* C21: the signed-headers string produced with the canonical request is the
\* lowercased names of exactly the headers in the request's list at that
\* moment, in ascending order, joined by single ';' with no trailing ';', and
\* the canonical header lines appear in the same order; in a signed read it is
\* host;x-amz-content-sha256;x-amz-date, with range after host only when the
\* read is ranged, and it never contains authorization, which is in the list
\* that is sent but not in the list that is signed.
C21_SignedHeaders ==
    /\ (CreqCalled /\ creq_call.request.first_header # <<>>) =>
          /\ creq_call.signed_headers = JoinedNames(creq_call.request.first_header)
          /\ \A i \in 1..Len(creq_call.request.first_header) : CreqLineAt(i) > 0
          /\ \A i \in 1..(Len(creq_call.request.first_header) - 1) :
                /\ strcmp(LowerStr(creq_call.request.first_header[i].name),
                          LowerStr(creq_call.request.first_header[i + 1].name)) < 0
                /\ CreqLineAt(i) < CreqLineAt(i + 1)
    /\ (ReadReturned /\ wire.sent /\ handle.signing_key # NULL) => SignedRequestSent
    /\ (~crashed /\ SignedRequestSent) =>
          /\ SignedHeadersSent = IF ReadRanged THEN SignedRanged ELSE SignedUnranged
          /\ SignedHeadersSent = SentNames(wire.headers)
          /\ Len(wire.headers) = IF ReadRanged THEN 5 ELSE 4

\* a signed, ranged read whose request went out
C21_Witness ==
    /\ ReadReturned
    /\ ReadRanged
    /\ SignedRequestSent
    /\ SignedHeadersSent = SignedRanged

(***************************************************************************)
(* The tuple parser                                                        *)
(***************************************************************************)

TupleCalled == util_call.op = "parse_tuple"

\* the text between the opening '(' and the last ')' of the call's input
TupleBody ==
    SubSeq(util_call.str, 2, LastParen(util_call.str, Len(util_call.str)) - 1)

\* the backslash at index i of body escapes the character behind it
RECURSIVE Escaping(_, _, _)
Escaping(body, sep, i) ==
    /\ i >= 1
    /\ i < Len(body)
    /\ body[i] = "\\"
    /\ body[i + 1] \in {sep, "\\"}
    /\ ~Escaping(body, sep, i - 1)

UnescapedSeps(body, sep) ==
    {i \in 1..Len(body) : body[i] = sep /\ ~Escaping(body, sep, i - 1)}

\* the characters of body strictly between indexes lo and hi, the escaping
\* backslashes left out
RECURSIVE ElemText(_, _, _, _)
ElemText(body, sep, lo, hi) ==
    IF lo + 1 >= hi THEN <<>>
    ELSE IF Escaping(body, sep, lo + 1) THEN ElemText(body, sep, lo + 1, hi)
    ELSE <<body[lo + 1]>> \o ElemText(body, sep, lo + 1, hi)

\* the k-th smallest member of a set of indexes; 0 for k = 0, top beyond
RECURSIVE NthIndex(_, _, _)
NthIndex(set, k, top) ==
    IF k = 0 THEN 0
    ELSE IF set = {} THEN top
    ELSE LET m == CHOOSE x \in set : \A y \in set : x <= y
         IN  IF k = 1 THEN m ELSE NthIndex(set \ {m}, k - 1, top)

TupleWellFormed ==
    /\ Len(util_call.str) >= 2
    /\ util_call.str[1] = "("
    /\ \E i \in 2..Len(util_call.str) : util_call.str[i] = ")"

VerbHead == <<"H", "E", "A", "D">>

VerbGet == <<"G", "E", "T">>

\* the canonical request that was hashed into the signature of the request
\* on the wire opens with verb and a newline
CanonicalisedWith(verb) ==
    /\ FirstIndexOf(HeaderValue(wire.headers, AuthorizationPrefix), <<"sha256(">>) > 0
    /\ FirstIndexOf(HeaderValue(wire.headers, AuthorizationPrefix), <<"sha256(">>)
          = FirstIndexOf(HeaderValue(wire.headers, AuthorizationPrefix),
                         <<"sha256(">> \o verb \o <<"\n">>)

\* C23: the verb label is "HEAD" from the moment getsize sets it until
\* getsize returns, the request open sends is a HEAD and, when signed, is
\* canonicalised with verb HEAD; whenever a handle is open (from the return
\* of open until close, across every read) the label is "GET", and every
\* signed request a read sends is a GET canonicalised with verb GET.
C23_VerbLabel ==
    /\ (s3r_call.op = "open" /\ s3r_call.getsize.called
            /\ s3r_call.getsize.httpverb # NULL) =>
          s3r_call.getsize.httpverb = VerbHead
    /\ (s3r_call.op = "open" /\ wire.sent) =>
          /\ wire.method = "HEAD"
          /\ SignedRequestSent => CanonicalisedWith(VerbHead)
    /\ handle.magic = "S3R" => handle.httpverb = VerbGet
    /\ (s3r_call.op = "read" /\ wire.sent) =>
          /\ wire.method = "GET"
          /\ SignedRequestSent => CanonicalisedWith(VerbGet)

\* a signed read sent through a handle that a signed HEAD opened
C23_Witness ==
    /\ s3r_call.op = "read"
    /\ s3r_call.ret = SUCCEED
    /\ SignedRequestSent
    /\ CanonicalisedWith(VerbGet)
    /\ s3r_call.pre.handle.httpverb = VerbGet

(***************************************************************************)
(* The HEAD settings of getsize                                            *)
(***************************************************************************)

\* getsize returned to open, and if it failed it did so after it had set
\* both HEAD options
GetsizeLeftArmed ==
    /\ s3r_call.op = "open"
    /\ s3r_call.getsize.called
    /\ ~s3r_call.getsize.crashed
    /\ s3r_call.fault \notin {"setopt_nobody", "setopt_headerdata"}

\* C24: whenever getsize returns, with success or with a failure that came
\* after the HEAD options were set, CURLOPT_NOBODY is off and
\* CURLOPT_HEADERDATA no longer points at the header buffer on getsize's stack.
C24_HeadSettingsUndone ==
    GetsizeLeftArmed =>
        /\ ~s3r_call.getsize.nobody
        /\ s3r_call.getsize.headerdata # "getsize_sds"

\* a getsize that succeeded and undid both settings
C24_Witness ==
    /\ GetsizeLeftArmed
    /\ s3r_call.getsize.ret = SUCCEED
    /\ ~s3r_call.getsize.nobody
    /\ s3r_call.getsize.headerdata = "unset"

(***************************************************************************)
(* URI encoding                                                            *)
(***************************************************************************)

UriCalled == util_call.op = "uriencode"

\* '-', '.', '_', '~', the digits and the letters
Unreserved ==
    {45, 46, 95, 126} \cup (48..57) \cup (65..90) \cup (97..122)

HexDigits == <<48, 49, 50, 51, 52, 53, 54, 55, 56, 57, 65, 66, 67, 68, 69, 70>>

\* '%' and the two uppercase hexadecimal digits of v
Percent(v) == <<37, HexDigits[(v \div 16) + 1], HexDigits[(v % 16) + 1]>>

\* what URI encoding makes of byte b
UriExpectedByte(b, encode_slash) ==
    IF b \in Unreserved \/ (b = 47 /\ ~encode_slash) THEN <<b>>
    ELSE IF b <= 127 THEN Percent(b)
    ELSE Percent(192 + (b \div 64)) \o Percent(128 + (b % 64))

RECURSIVE UriExpected(_, _)
UriExpected(str, encode_slash) ==
    IF str = <<>> THEN <<>>
    ELSE UriExpectedByte(Head(str), encode_slash) \o UriExpected(Tail(str), encode_slash)

UriAscii(str) == \A i \in 1..Len(str) : str[i] <= 127

\* C25: for every byte string and either encode_slash, uriencode copies the
\* unreserved bytes, copies '/' iff encode_slash is false, writes every other
\* byte up to 0x7F as '%' and two uppercase hex digits and every byte above
\* 0x7F as the percent-encoded bytes 0xC0|(b>>6) and 0x80|(b&0x3F), and
\* reports the length of what it wrote.
C25_UriEncoding ==
    UriCalled =>
        /\ ~util_call.out.crashed
        /\ util_call.out.ret = SUCCEED
        /\ util_call.out.dest = UriExpected(util_call.str, util_call.encode_slash)
        /\ util_call.out.n_written = Len(util_call.out.dest)

\* a call on a string holding a space and a '/' that came out as claimed
C25_Witness ==
    /\ UriCalled
    /\ util_call.str = <<32, 47>>
    /\ util_call.encode_slash
    /\ util_call.out.ret = SUCCEED
    /\ util_call.out.dest = <<37, 50, 48, 37, 50, 70>>
    /\ util_call.out.n_written = 6

(***************************************************************************)
(* The bounds check of read and wrap-around                                *)
(***************************************************************************)

\* the sum of the last read's offset and len as the machine computes it
WordSum == AddrAdd(s3r_call.len, s3r_call.offset)

SumWraps == s3r_call.offset + s3r_call.len > ULONG_MAX

\* C26: a read whose offset and len have a true, unbounded sum above filesize
\* fails and sends no request, whether or not the sum computed in the machine
\* word wraps around to a value that is at most filesize.
C26_BoundsCheckNoWrap ==
    /\ (ReadReturned /\ ~SumWraps /\ s3r_call.offset + s3r_call.len > handle.filesize) =>
          (s3r_call.ret = FAIL /\ ~wire.sent)
    /\ (ReadReturned /\ SumWraps /\ WordSum <= handle.filesize) =>
          (s3r_call.ret = FAIL /\ ~wire.sent)

\* one byte asked for at the end of the object: the sum is filesize + 1, does
\* not wrap, and the read is refused with nothing sent
C26_Witness ==
    /\ ReadReturned
    /\ s3r_call.offset = handle.filesize
    /\ s3r_call.len = 1
    /\ ~SumWraps
    /\ s3r_call.ret = FAIL
    /\ ~wire.sent

(***************************************************************************)
(* Credentials and the bytes of the key                                    *)
(***************************************************************************)

\* the last open had a url that parses, a server that answers the HEAD well,
\* no failing step, and was given a non-empty region, a non-empty id and a key
OpenFullyKeyed ==
    /\ OpenReturned
    /\ s3r_call.clean
    /\ s3r_call.region # NULL /\ s3r_call.region # <<>>
    /\ s3r_call.id # NULL /\ s3r_call.id # <<>>
    /\ s3r_call.key # NULL

\* C27: the kind of handle open gives depends on which credentials are
\* supplied and not on the bytes of the key: with a non-empty region, a
\* non-empty id and any key, a first byte 0x00 included, open returns an
\* authenticated handle that holds a copy of the key; and a handle without
\* credentials is returned only when no key was supplied.
C27_KeyBytesIrrelevant ==
    /\ OpenFullyKeyed =>
          /\ s3r_call.ret = "handle"
          /\ handle.region = s3r_call.region
          /\ handle.secret_id = s3r_call.id
          /\ handle.signing_key = s3r_call.key
    /\ (OpenReturned /\ s3r_call.ret = "handle" /\ handle.signing_key = NULL) =>
          s3r_call.key = NULL

\* an open with all three credentials and a key without a leading zero byte
C27_Witness ==
    /\ OpenFullyKeyed
    /\ Head(s3r_call.key) # "00"
    /\ s3r_call.ret = "handle"
    /\ handle.signing_key = s3r_call.key

(***************************************************************************)
(* Emptying the header list                                                *)
(***************************************************************************)

\* the number of times hrb_node_set(&list, list->name, NULL) is called until
\* the list is empty, n of them made; -1 when a call fails or removes nothing
RECURSIVE RemovalsToEmpty(_, _)
RemovalsToEmpty(list, n) ==
    IF list = <<>> THEN n
    ELSE IF HrbNodeSet(list, list[1].name, NULL).ret # SUCCEED THEN 0 - 1
    ELSE IF HrbNodeSet(list, list[1].name, NULL).L # Tail(list) THEN 0 - 1
    ELSE RemovalsToEmpty(Tail(list), n + 1)

\* the last call of set asked to remove the node named by the head of the list
HeadRemovalCalled ==
    /\ hrb_call.ret # "none"
    /\ hrb_call.prev # <<>>
    /\ hrb_call.value = NULL
    /\ hrb_call.name = hrb_call.prev[1].name

\* C28: on a list of n nodes built by set, removing the node named by the
\* current head succeeds and takes exactly the head off, so the loop that
\* repeats this until the list is empty ends after exactly n removals with
\* the empty list.
C28_DrainTerminates ==
    /\ HeadRemovalCalled => (hrb_call.ret = SUCCEED /\ L = Tail(hrb_call.prev))
    /\ RemovalsToEmpty(L, 0) = Len(L)

\* the head of a list of several nodes was removed, and draining what is
\* left takes one removal per node
C28_Witness ==
    /\ HeadRemovalCalled
    /\ Len(hrb_call.prev) = MaxNodes
    /\ hrb_call.ret = SUCCEED
    /\ Len(L) = MaxNodes - 1
    /\ RemovalsToEmpty(L, 0) = MaxNodes - 1

(***************************************************************************)
(* Every character of a parsed URL is accounted for                        *)
(***************************************************************************)

\* str with the characters before its first ':' in lower case
LowerScheme(str) ==
    LowerStr(Substr(str, 0, ScanTo(str, 0, {":"})))
        \o Substr(str, ScanTo(str, 0, {":"}), Len(str))

\* the components of p and the separators, with the '/' of an empty path
ReassembleLoneSlash(p) ==
    p.scheme \o <<":", "/", "/">> \o p.host \o UrlPart(":", p.port)
        \o <<"/">> \o UrlPart("?", p.query)

\* the stored components and the separators make up the whole of str
Accounted(str, p) ==
    \/ LowerScheme(str) = Reassemble(p)
    \/ p.path = NULL /\ LowerScheme(str) = ReassembleLoneSlash(p)

\* C29: when parse succeeds, the input is made up of the stored components
\* and the separators "://", ':' before the port, '/' before the path and '?'
\* before the query, with no character left over; so an input that goes on
\* after a bracketed host with something that starts neither a port, a path
\* nor a query is refused.
C29_EveryCharAccounted ==
    UrlAccepted => Accounted(url_call.in.str, purl_slot)

\* an accepted url with a plain host and a lone '/', fully accounted for
C29_Witness ==
    /\ UrlAccepted
    /\ url_call.in.host = <<"b">>
    /\ url_call.in.port = <<"8">>
    /\ url_call.in.path = <<>>
    /\ url_call.in.query = <<"q">>
    /\ purl_slot.path = NULL
    /\ Accounted(url_call.in.str, purl_slot)

(***************************************************************************)
(* The canonical request of a request without headers                      *)
(***************************************************************************)

\* aws_canonical_request was called on a request whose header list is empty
CreqCalledNoHeaders ==
    /\ creq_call.op = "creq"
    /\ creq_call.given
    /\ creq_call.request.first_header = <<>>

\* C30: on a request with an empty header list aws_canonical_request comes
\* back having written only inside its two destinations (no byte before the
\* start of the signed-headers buffer is touched), and the signed-headers
\* string is empty.
C30_EmptyListInBounds ==
    CreqCalledNoHeaders =>
        /\ ~creq_call.crashed
        /\ ~creq_call.stray
        /\ creq_call.ret = SUCCEED
        /\ creq_call.signed_headers = <<>>

\* the call on an empty list came back with the strings as expected, having
\* written a zero byte in front of the signed-headers buffer
C30_Witness ==
    /\ CreqCalledNoHeaders
    /\ ~creq_call.crashed
    /\ creq_call.stray
    /\ creq_call.signed_headers = <<>>
    /\ CountNewlines(creq_call.creq) = 5

====
